---- MODULE Spec2Model ----
(***************************************************************************)
(* A model of the Arduino tool layer of ArduinoVision: board discovery,    *)
(* the sketch writer, the compile and upload wrappers around arduino-cli,  *)
(* and the deploy pipelines built from them (src/arduino_tools.py,         *)
(* src/main.py).                                                           *)
(*                                                                         *)
(* Text is a sequence of one-character strings, so that substring tests,   *)
(* concatenation and lower-casing are computed and not assumed.  A Python  *)
(* optional value (None or a value) is a sequence of length 0 or 1.        *)
(***************************************************************************)
EXTENDS Integers, Sequences, FiniteSets, TLC

VARIABLES
    fs,     \* the sketch directory
    phase,  \* "idle", "pending" (a call has arrived), "done" (it was handled)
    req,    \* the call being handled: the operation and its arguments
    ret,    \* the value the call returned, when it returned one
    exc,    \* the exception the call raised, or NoExc
    calls,  \* what the call invoked, in order, each with how it ended
    last,   \* history: per sketch folder, the latest write_sketch call for it
    tasks   \* the calls the event loop holds that are not running now

vars == <<fs, phase, req, ret, exc, calls, last, tasks>>

(***************************************************************************)
(* Bounds of the model.                                                    *)
(***************************************************************************)
\* number of distinct source texts a caller may send
NumCodes == 2
\* longest serial enumeration returned by comports()
MaxPorts == 2
\* longest "detected_ports" array printed by arduino-cli board list
MaxDetected == 2

\* the latest reading of the wall clock, in seconds
MaxEpoch == 1000
\* longest duration asked of read_serial, in ticks of 0.1 s
MaxDuration == 2
\* most calls one server process handles at a time
MaxTasks == 2

\* the lifetime of a token, in seconds: 86400 in main.py
TokenLifetime == 86400

(***************************************************************************)
(* Python values.                                                          *)
(***************************************************************************)
None == <<>>

Some(v) == <<v>>

IsNone(o) == Len(o) = 0

\* Python truthiness of an optional text: None and "" are falsy
Truthy(o) == Len(o) = 1 /\ Len(o[1]) > 0

(***************************************************************************)
(* Text.                                                                   *)
(***************************************************************************)
UpperChars ==
    <<"A","B","C","D","E","F","G","H","I","J","K","L","M","N","O","P","Q",
      "R","S","T","U","V","W","X","Y","Z">>

LowerChars ==
    <<"a","b","c","d","e","f","g","h","i","j","k","l","m","n","o","p","q",
      "r","s","t","u","v","w","x","y","z">>

DigitChars == <<"0","1","2","3","4","5","6","7","8","9">>

Range(s) == {s[i] : i \in DOMAIN s}

\* LATIN CAPITAL LETTER I WITH DOT ABOVE: a letter whose lower case is two
\* code points, "i" followed by COMBINING DOT ABOVE (a mark, not a letter)
CapitalIDot == "U+0130"

CombiningDot == "U+0307"

\* the characters str.isupper() holds of
UpperSet == Range(UpperChars) \cup {CapitalIDot}

\* the characters str.isalnum() holds of
AlnumSet ==
    Range(UpperChars) \cup Range(LowerChars) \cup Range(DigitChars)
    \cup {CapitalIDot}

\* the lower case of each capital letter of UpperChars
LowerOf ==
    [c \in Range(UpperChars) |->
        LowerChars[CHOOSE i \in DOMAIN UpperChars : UpperChars[i] = c]]

\* str.isalnum() of one character
IsAlnum(c) == c \in AlnumSet

\* str.isupper() of one character
IsUpper(c) == c \in UpperSet

\* str.lower() of one character: a text, since one character may become two
LowerChar(c) ==
    IF c \in DOMAIN LowerOf THEN <<LowerOf[c]>>
    ELSE IF c = CapitalIDot THEN <<"i", CombiningDot>> ELSE <<c>>

RECURSIVE StrLower(_)
\* str.lower()
StrLower(s) == IF s = <<>> THEN <<>> ELSE LowerChar(Head(s)) \o StrLower(Tail(s))

\* needle occurs in hay at position i
OccursAt(needle, hay, i) ==
    /\ i + Len(needle) - 1 <= Len(hay)
    /\ \A j \in 1..Len(needle) : hay[i + j - 1] = needle[j]

\* Python's "needle in hay" on text
Contains(needle, hay) == \E i \in 1..(Len(hay) + 1) : OccursAt(needle, hay, i)

(***************************************************************************)
(* Literal texts of src/arduino_tools.py.                                   *)
(***************************************************************************)
HintHead ==
    <<"P","e","r","m","i","s","s","i","o","n"," ","d","e","n","i","e","d"," ",
      "o","n"," ">>

HintQuick ==
    <<".","\n","F","i","x"," ","o","p","t","i","o","n","s"," ","(","r","u",
      "n"," ","i","n"," ","W","S","L"," ","t","e","r","m","i","n","a","l",")",
      ":","\n"," "," ","Q","u","i","c","k"," ","(","r","e","s","e","t","s",
      " ","o","n"," ","u","n","p","l","u","g",")",":"," "," ","s","u","d","o",
      " ","c","h","m","o","d"," ","a","+","r","w"," ">>

HintTail ==
    <<"\n"," "," ","P","e","r","m","a","n","e","n","t"," ","(","n","e","e",
      "d","s"," ","r","e","-","l","o","g","i","n",")",":"," ","s","u","d","o",
      " ","u","s","e","r","m","o","d"," ","-","a"," ","-","G"," ","u","u","c",
      "p"," ","$","U","S","E","R","\n"," "," ","P","e","r","m","a","n","e",
      "n","t"," ","(","u","d","e","v"," ","r","u","l","e",")",":"," "," "," ",
      " "," ","s","u","d","o"," ","c","p"," ","9","9","-","u","s","b","-","s",
      "e","r","i","a","l",".","r","u","l","e","s"," ","/","e","t","c","/","u",
      "d","e","v","/","r","u","l","e","s",".","d","/"," ","&","&"," ","s","u",
      "d","o"," ","u","d","e","v","a","d","m"," ","c","o","n","t","r","o","l",
      " ","-","-","r","e","l","o","a","d","-","r","u","l","e","s"," ","&","&",
      " ","s","u","d","o"," ","u","d","e","v","a","d","m"," ","t","r","i","g",
      "g","e","r">>

OriginalErrorSep ==
    <<"\n","\n","O","r","i","g","i","n","a","l"," ","e","r","r","o","r",":",
      "\n">>

PermissionDeniedPattern ==
    <<"p","e","r","m","i","s","s","i","o","n"," ","d","e","n","i","e","d">>

CliNotFoundText ==
    <<"a","r","d","u","i","n","o","-","c","l","i"," ","n","o","t"," ","f","o",
      "u","n","d","."," ","P","l","e","a","s","e"," ","i","n","s","t","a","l",
      "l"," ","i","t"," ","f","i","r","s","t",".">>

CompileTimeoutText ==
    <<"C","o","m","p","i","l","a","t","i","o","n"," ","t","i","m","e","d"," ",
      "o","u","t"," ","a","f","t","e","r"," ","1","2","0"," ","s","e","c","o",
      "n","d","s",".">>

UploadTimeoutText ==
    <<"U","p","l","o","a","d"," ","t","i","m","e","d"," ","o","u","t"," ","a",
      "f","t","e","r"," ","6","0"," ","s","e","c","o","n","d","s",".">>

DefaultName ==
    <<"s","k","e","t","c","h">>

InoSuffix ==
    <<".","i","n","o">>

SKETCH_DIR ==
    <<"s","k","e","t","c","h","e","s">>

\* the default board profile of compile_sketch, upload_sketch and deploy_code
DefaultFqbn == "arduino:avr:uno"

(***************************************************************************)
(* Inputs: what callers send and what the operating system and arduino-cli *)
(* answer.                                                                 *)
(***************************************************************************)
PortUSB0 ==
    <<"/","d","e","v","/","t","t","y","U","S","B","0">>

PortACM0 ==
    <<"/","d","e","v","/","t","t","y","A","C","M","0">>

Ports == {PortUSB0, PortACM0}

\* the source texts a caller may send
Codes == {<<"code", i>> : i \in 1..NumCodes}

\* what a file holds after open(..., "w") truncated it and nothing was written
EmptyFile == <<"code", 0>>

\* sketch names a caller may send: mixed case with an underscore and a digit,
\* the same with punctuation, nothing, only punctuation, and a non-ASCII
\* capital letter
NameInputs ==
    { <<"A","_","1">>, <<"a","-","_","1">>, <<>>, <<"?","!">>, <<CapitalIDot>> }

\* names used with the deploy operations
DeployNames == { <<"A","_","1">>, <<"?","!">> }

\* str(e) of the OSError of a failed mkdir
MkdirErrorText ==
    <<"[","E","r","r","n","o"," ","2","0","]"," ","N","o","t"," ","a"," ","d",
      "i","r","e","c","t","o","r","y">>

\* str(e) of the OSError of a failed open
OpenErrorText ==
    <<"[","E","r","r","n","o"," ","1","3","]"," ","P","e","r","m","i","s","s",
      "i","o","n"," ","d","e","n","i","e","d">>

\* str(e) of the error of a failed write after the file was opened
WriteErrorText ==
    <<"'","u","t","f","-","8","'"," ","c","o","d","e","c"," ","c","a","n","'",
      "t"," ","e","n","c","o","d","e"," ","c","h","a","r","a","c","t","e","r">>

\* str(e) of the PermissionError of an arduino-cli that may not be executed
ExecErrorText ==
    <<"[","E","r","r","n","o"," ","1","3","]"," ","P","e","r","m","i","s","s",
      "i","o","n"," ","d","e","n","i","e","d",":"," ","'","a","r","d","u","i",
      "n","o","-","c","l","i","'">>

StdoutText ==
    <<"S","k","e","t","c","h"," ","u","s","e","s"," ","9","2","4"," ","b","y",
      "t","e","s">>

StderrWarning ==
    <<"w","a","r","n","i","n","g",":"," ","u","n","u","s","e","d"," ","v","a",
      "r","i","a","b","l","e">>

StderrCompile ==
    <<"e","r","r","o","r",":"," ","e","x","p","e","c","t","e","d"," ","'",";",
      "'"," ","b","e","f","o","r","e"," ","'","}","'"," ","t","o","k","e","n">>

StderrDenied ==
    <<"a","v","r","d","u","d","e",":"," ","s","e","r","_","o","p","e","n","(",
      ")",":"," ","c","a","n","'","t"," ","o","p","e","n"," ","d","e","v","i",
      "c","e",":"," ","P","e","r","m","i","s","s","i","o","n"," ","d","e","n",
      "i","e","d">>

StderrDeniedUpper ==
    <<"P","E","R","M","I","S","S","I","O","N"," ","D","E","N","I","E","D">>

StderrSync ==
    <<"a","v","r","d","u","d","e",":"," ","s","t","k","5","0","0","_","r","e",
      "c","v","(",")",":"," ","n","o","t"," ","i","n"," ","s","y","n","c">>

\* the outcome of one subprocess.run: the process exited, or run raised
Exited(rc, stdout, stderr) ==
    [kind |-> "exit", returncode |-> rc, stdout |-> stdout, stderr |-> stderr]

Raised(type) ==
    [kind |-> type, returncode |-> -1, stdout |-> <<>>, stderr |-> <<>>]

\* outcomes of where write_sketch may stop: nowhere, at mkdir, at the open
\* inside write_text, at the write inside write_text
WriteOutcomes == {"ok", "mkdir", "open", "write"}

CompileRuns ==
    { Exited(0, StdoutText, <<>>), Exited(0, StdoutText, StderrWarning),
      Exited(1, <<>>, StderrCompile), Exited(1, StdoutText, <<>>),
      Raised("FileNotFoundError"), Raised("TimeoutExpired"),
      Raised("PermissionError") }

UploadRuns ==
    { Exited(0, StdoutText, <<>>), Exited(0, StdoutText, StderrDenied),
      Exited(1, <<>>, StderrDenied), Exited(1, StdoutText, StderrDeniedUpper),
      Exited(1, <<>>, StderrSync), Exited(1, <<>>, <<>>),
      Raised("FileNotFoundError"), Raised("TimeoutExpired"),
      Raised("PermissionError") }

FixRuns ==
    { Exited(0, <<>>, <<>>), Exited(1, <<>>, <<>>),
      Raised("FileNotFoundError"), Raised("TimeoutExpired") }

\* os.stat(port): it raises, or gives the owner, the group and the write bits
Stat(st_uid, st_gid, mode) ==
    [raises |-> FALSE, st_uid |-> st_uid, st_gid |-> st_gid, mode |-> mode]

StatRaises == [raises |-> TRUE, st_uid |-> 0, st_gid |-> 0, mode |-> {}]

\* no write bit; the owner's bit, for the owner root and for the user 1000;
\* the group's bit, for the groups 0 and 20; the bit of everybody
StatOutcomes ==
    { StatRaises, Stat(1000, 20, {}),
      Stat(0, 0, {"S_IWUSR"}), Stat(1000, 0, {"S_IWUSR"}),
      Stat(0, 0, {"S_IWGRP"}), Stat(0, 20, {"S_IWGRP"}),
      Stat(0, 0, {"S_IWOTH"}) }

\* os.getuid() and os.getgroups() of the server process
ProcessIds == { [uid |-> 1000, gids |-> {20, 1000}] }

(***************************************************************************)
(* Exceptions and call records.                                            *)
(***************************************************************************)
NoExc == [type |-> "none", text |-> <<>>]

Exc(type, text) == [type |-> type, text |-> text]

\* one entry of the trace of what a handler invoked: the function or command,
\* whether it succeeded, the source text arduino-cli found at the sketch path
\* (for a compile or an upload), and what came back: the value a function
\* returned, or how the process ended
Call(fn, ok, src, out) == [fn |-> fn, ok |-> ok, src |-> src, out |-> out]

(***************************************************************************)
(* The sketch directory: folder name -> (file name -> content).            *)
(***************************************************************************)
NoFiles == [f \in {} |-> EmptyFile]

\* Path.mkdir(exist_ok=True)
MkDir(fsys, d) == IF d \in DOMAIN fsys THEN fsys ELSE fsys @@ (d :> NoFiles)

\* the file f of folder d holds content (created when missing)
PutFile(fsys, d, f, content) ==
    [fsys EXCEPT ![d] =
        [x \in DOMAIN fsys[d] \cup {f} |-> IF x = f THEN content ELSE fsys[d][x]]]

\* str(SKETCH_DIR / safe_name)
FolderPath(safe_name) == SKETCH_DIR \o <<"/">> \o safe_name

\* the file named after the default sketch whatever the folder
DefaultFileName(safe_name) == DefaultName \o InoSuffix

\* f"{safe_name}.ino"
SketchFileName(safe_name) == safe_name \o InoSuffix

\* the source text arduino-cli finds for a sketch path: the .ino file named
\* after the folder, when there is one
SketchSource(fsys, sketch_path) ==
    LET ds == {d \in DOMAIN fsys :
                  FolderPath(d) = sketch_path /\ (d \o InoSuffix) \in DOMAIN fsys[d]}
    IN IF ds = {} THEN None
       ELSE LET d == CHOOSE x \in ds : TRUE IN Some(fsys[d][d \o InoSuffix])

(***************************************************************************)
(* write_sketch                                                            *)
(***************************************************************************)
\* the sanitized sketch name: keep alphanumerics and "_", then lower-case;
\* "sketch" when nothing is left
SafeName(name) ==
    LET kept == SelectSeq(name, LAMBDA c : IsAlnum(c) \/ c = "_")
        low  == StrLower(kept)
    IN IF low = <<>> THEN DefaultName ELSE low

\* write_sketch(code, name) on the directory fsys, stopping where `stop` says:
\* the exception raised (or none), the value returned (none when it raised)
\* and the directory after
write_sketch(fsys, code, name, stop) ==
    LET safe_name     == SafeName(name)
        sketch_folder == FolderPath(safe_name)
        sketch_file   == SketchFileName(safe_name)
        made          == MkDir(fsys, safe_name)
    IN CASE stop = "mkdir" ->
              [exc |-> Exc("OSError", MkdirErrorText), value |-> None, fs |-> fsys]
         [] stop = "open" ->
              [exc |-> Exc("OSError", OpenErrorText), value |-> None, fs |-> made]
         [] stop = "write" ->
              [exc |-> Exc("UnicodeEncodeError", WriteErrorText), value |-> None,
               fs |-> PutFile(made, safe_name, sketch_file, EmptyFile)]
         [] OTHER ->
              [exc |-> NoExc, value |-> Some(sketch_folder),
               fs |-> PutFile(made, safe_name, sketch_file, code)]

(***************************************************************************)
(* compile_sketch                                                          *)
(***************************************************************************)
Result(success, output, errors) ==
    [success |-> success, output |-> output, errors |-> errors]

\* stderr reported whatever the exit code
StderrAlways(run) == Some(run.stderr)

\* result.stderr if result.returncode != 0 else None
StderrIfFailed(run) == IF run.returncode # 0 THEN Some(run.stderr) ELSE None

RunSucceeds(run) == run.kind = "exit" /\ run.returncode = 0

\* compile_sketch(sketch_path, fqbn) when subprocess.run ends as `run`
compile_sketch(fsys, sketch_path, fqbn, run) ==
    LET call == Call("arduino-cli compile", RunSucceeds(run),
                     SketchSource(fsys, sketch_path), Some(run))
    IN CASE run.kind = "exit" ->
              [exc |-> NoExc, calls |-> <<call>>,
               value |-> Some(Result(run.returncode = 0, run.stdout,
                                     StderrIfFailed(run)))]
         [] run.kind = "FileNotFoundError" ->
              [exc |-> NoExc, calls |-> <<call>>,
               value |-> Some(Result(FALSE, <<>>, Some(CliNotFoundText)))]
         [] run.kind = "TimeoutExpired" ->
              [exc |-> NoExc, calls |-> <<call>>,
               value |-> Some(Result(FALSE, <<>>, Some(CompileTimeoutText)))]
         [] OTHER ->
              [exc |-> Exc(run.kind, ExecErrorText), calls |-> <<call>>,
               value |-> None]

(***************************************************************************)
(* upload_sketch and its helpers                                           *)
(***************************************************************************)
FixedText ==
    <<"F","i","x","e","d"," ","p","e","r","m","i","s","s","i","o","n","s"," ",
      "o","n"," ">>

AutoFixFailedHead ==
    <<"A","u","t","o","-","f","i","x"," ","f","a","i","l","e","d"," ","(","s",
      "u","d","o"," ","-","n"," ","r","e","q","u","i","r","e","s"," ","p","a",
      "s","s","w","o","r","d","l","e","s","s"," ","s","u","d","o",")",".",
      "\n","M","a","n","u","a","l"," ","f","i","x"," ","o","p","t","i","o",
      "n","s",":","\n"," "," ","1","."," ","Q","u","i","c","k"," ","f","i",
      "x"," ","(","r","e","s","e","t","s"," ","o","n"," ","u","n","p","l","u",
      "g",")",":"," ","s","u","d","o"," ","c","h","m","o","d"," ","a","+","r",
      "w"," ">>

AutoFixFailedTail ==
    <<"\n"," "," ","2","."," ","P","e","r","m","a","n","e","n","t"," ","f",
      "i","x",":"," ","s","u","d","o"," ","u","s","e","r","m","o","d"," ","-",
      "a"," ","-","G"," ","u","u","c","p"," ","$","U","S","E","R"," "," ","t",
      "h","e","n"," ","r","e","s","t","a","r","t"," ","W","S","L","\n"," ",
      " ","3","."," ","U","d","e","v"," ","r","u","l","e",":"," ","s","u","d",
      "o"," ","c","p"," ","9","9","-","u","s","b","-","s","e","r","i","a","l",
      ".","r","u","l","e","s"," ","/","e","t","c","/","u","d","e","v","/","r",
      "u","l","e","s",".","d","/"," ","&","&"," ","s","u","d","o"," ","u","d",
      "e","v","a","d","m"," ","c","o","n","t","r","o","l"," ","-","-","r","e",
      "l","o","a","d","-","r","u","l","e","s"," ","&","&"," ","s","u","d","o",
      " ","u","d","e","v","a","d","m"," ","t","r","i","g","g","e","r">>

\* str(e) of an exception of the sudo invocation
SudoErrorText ==
    <<"[","E","r","r","n","o"," ","2","]"," ","N","o"," ","s","u","c","h"," ",
      "f","i","l","e"," ","o","r"," ","d","i","r","e","c","t","o","r","y",":",
      " ","'","s","u","d","o","'">>

\* the fix reported as done however the sudo chmod ended
FixReportedDone(port, run) == [success |-> TRUE, message |-> FixedText \o port]

\* fix_port_permissions(port) when its subprocess.run ends as `run`
fix_port_permissions(port, run) ==
    IF run.kind = "exit"
    THEN IF run.returncode = 0
         THEN [success |-> TRUE, message |-> FixedText \o port]
         ELSE [success |-> FALSE,
               message |-> AutoFixFailedHead \o port \o AutoFixFailedTail]
    ELSE [success |-> FALSE, message |-> SudoErrorText]

\* check_port_accessible(port) when os.stat(port) gives st, for process proc
check_port_accessible(st, proc) ==
    IF st.raises THEN FALSE
    ELSE LET owner_write == (st.st_uid = proc.uid) /\ ("S_IWUSR" \in st.mode)
             group_write == (st.st_gid \in proc.gids) /\ ("S_IWGRP" \in st.mode)
             world_write == "S_IWOTH" \in st.mode
         IN owner_write \/ group_write \/ world_write

\* the hint with the port left out of its text
HintWithoutPort(port) == HintHead \o HintQuick \o HintTail

_permission_denied_hint(port) == HintHead \o port \o HintQuick \o port \o HintTail

\* the hint put in the place of the tool's error text
HintReplacesError(port, success, errors) ==
    IF ~success /\ Truthy(errors)
       /\ Contains(PermissionDeniedPattern, StrLower(errors[1]))
    THEN Some(_permission_denied_hint(port))
    ELSE errors

\* "Surface permission errors with actionable hint": the errors text of a
\* failed upload, with the hint ahead of it when it reports a denied permission
SurfacePermissionError(port, success, errors) ==
    IF ~success /\ Truthy(errors)
       /\ Contains(PermissionDeniedPattern, StrLower(errors[1]))
    THEN Some(_permission_denied_hint(port) \o OriginalErrorSep \o errors[1])
    ELSE errors

\* the part of upload_sketch after the pre-flight check: the arduino-cli
\* upload invocation ending as `run`
upload_invocation(fsys, sketch_path, port, fqbn, run) ==
    LET call == Call("arduino-cli upload", RunSucceeds(run),
                     SketchSource(fsys, sketch_path), Some(run))
    IN CASE run.kind = "exit" ->
              LET success == run.returncode = 0
                  errors  == IF ~success THEN Some(run.stderr) ELSE None
              IN [exc |-> NoExc, calls |-> <<call>>,
                  value |-> Some(Result(success, run.stdout,
                                        SurfacePermissionError(port, success, errors)))]
         [] run.kind = "FileNotFoundError" ->
              [exc |-> NoExc, calls |-> <<call>>,
               value |-> Some(Result(FALSE, <<>>, Some(CliNotFoundText)))]
         [] run.kind = "TimeoutExpired" ->
              [exc |-> NoExc, calls |-> <<call>>,
               value |-> Some(Result(FALSE, <<>>, Some(UploadTimeoutText)))]
         [] OTHER ->
              [exc |-> Exc(run.kind, ExecErrorText), calls |-> <<call>>,
               value |-> None]

\* upload_sketch(sketch_path, port, fqbn) in environment env: env.st and
\* env.proc decide the pre-flight check, env.fix is how the sudo chmod ends,
\* env.run how arduino-cli upload ends
upload_sketch(fsys, sketch_path, port, fqbn, env) ==
    LET accessible == check_port_accessible(env.st, env.proc)
        check      == Call("check_port_accessible", accessible, None, None)
    IN IF ~accessible
       THEN LET fix     == fix_port_permissions(port, env.fix)
                fixcall == Call("sudo chmod", fix.success, None, Some(env.fix))
            IN IF fix.success
               THEN LET up == upload_invocation(fsys, sketch_path, port, fqbn, env.run)
                    IN [up EXCEPT !.calls = <<check, fixcall>> \o @]
               ELSE [exc |-> NoExc, calls |-> <<check, fixcall>>,
                     value |-> Some(Result(FALSE, <<>>,
                                           Some(_permission_denied_hint(port))))]
       ELSE LET up == upload_invocation(fsys, sketch_path, port, fqbn, env.run)
            IN [up EXCEPT !.calls = <<check>> \o @]

\* a question that is never asked needs no answer: one stands for all
IdleRun == Exited(0, <<>>, <<>>)

\* the environments of one upload_sketch call; the sudo chmod is not run when
\* the port is accessible, nor arduino-cli when the port stays inaccessible
UploadEnvs ==
    {e \in [st : StatOutcomes, proc : ProcessIds, fix : FixRuns \cup {IdleRun},
            run : UploadRuns \cup {IdleRun}] :
        LET accessible == \/ "S_IWOTH" \in e.st.mode
                          \/ e.st.st_uid = e.proc.uid /\ "S_IWUSR" \in e.st.mode
                          \/ e.st.st_gid \in e.proc.gids /\ "S_IWGRP" \in e.st.mode
        IN IF accessible THEN e.fix = IdleRun /\ e.run \in UploadRuns
           ELSE /\ e.fix \in FixRuns
                /\ IF RunSucceeds(e.fix) THEN e.run \in UploadRuns ELSE e.run = IdleRun}

(***************************************************************************)
(* The deploy pipelines                                                    *)
(***************************************************************************)
\* a stage that is not reached needs no environment: one stands for all
IdleUpload ==
    [st |-> StatRaises, proc |-> CHOOSE p \in ProcessIds : TRUE, fix |-> IdleRun,
     run |-> IdleRun]

\* the environments of one deploy: where the write stops, how the compile
\* ends, and the upload's environment
DeployEnvs ==
    [stop : WriteOutcomes \ {"ok"}, crun : {IdleRun}, up : {IdleUpload}]
    \cup [stop : {"ok"}, crun : {r \in CompileRuns : ~RunSucceeds(r)},
          up : {IdleUpload}]
    \cup [stop : {"ok"}, crun : {r \in CompileRuns : RunSucceeds(r)},
          up : UploadEnvs]

\* the test of the compile result left out: a failed compile goes unnoticed
CompileFailureIgnored(compile_result) == FALSE

\* if not compile_result["success"]
CompileFailed(compile_result) == ~compile_result.success

\* the test of the upload result left out: a failed upload goes unnoticed
UploadFailureIgnored(upload_result) == FALSE

\* if not upload_result["success"]
UploadFailed(upload_result) == ~upload_result.success

\* deploy_code of arduino_tools.py
deploy_code(fsys, code, port, name, fqbn, env) ==
    LET w     == write_sketch(fsys, code, name, env.stop)
        wcall == Call("write_sketch", w.exc = NoExc, None, w.value)
    IN IF w.exc # NoExc
       THEN [exc |-> NoExc, fs |-> w.fs, calls |-> <<wcall>>,
             value |-> Some([success |-> FALSE, stage |-> "write",
                             error |-> Some(w.exc.text)])]
       ELSE
       LET sketch_path == w.value[1]
           c     == compile_sketch(w.fs, sketch_path, fqbn, env.crun)
           ccall == Call("compile_sketch", c.exc = NoExc, None, c.value)
       IN IF c.exc # NoExc
          THEN [exc |-> c.exc, fs |-> w.fs, calls |-> <<wcall, ccall>> \o c.calls,
                value |-> None]
          ELSE IF CompileFailed(c.value[1])
          THEN [exc |-> NoExc, fs |-> w.fs, calls |-> <<wcall, ccall>> \o c.calls,
                value |-> Some([success |-> FALSE, stage |-> "compile",
                                error |-> c.value[1].errors,
                                sketch_path |-> sketch_path])]
          ELSE
          LET u     == upload_sketch(w.fs, sketch_path, port, fqbn, env.up)
              ucall == Call("upload_sketch", u.exc = NoExc, None, u.value)
              all   == <<wcall, ccall>> \o c.calls \o <<ucall>> \o u.calls
          IN IF u.exc # NoExc
             THEN [exc |-> u.exc, fs |-> w.fs, calls |-> all, value |-> None]
             ELSE IF UploadFailed(u.value[1])
             THEN [exc |-> NoExc, fs |-> w.fs, calls |-> all,
                   value |-> Some([success |-> FALSE, stage |-> "upload",
                                   error |-> u.value[1].errors,
                                   sketch_path |-> sketch_path])]
             ELSE [exc |-> NoExc, fs |-> w.fs, calls |-> all,
                   value |-> Some([success |-> TRUE,
                                   message |-> "Code deployed successfully!",
                                   sketch_path |-> sketch_path,
                                   port |-> port])]

\* the deploy_code tool of the agent (create_agent.deploy_code in main.py)
agent_deploy_code(fsys, code, port, sketch_name, board_fqbn, env) ==
    LET w     == write_sketch(fsys, code, sketch_name, env.stop)
        wcall == Call("write_sketch", w.exc = NoExc, None, w.value)
    IN IF w.exc # NoExc
       THEN [exc |-> NoExc, fs |-> w.fs, calls |-> <<wcall>>,
             value |-> Some([success |-> FALSE, stage |-> "write",
                             error |-> Some(w.exc.text)])]
       ELSE
       LET path  == w.value[1]
           c     == compile_sketch(w.fs, path, board_fqbn, env.crun)
           ccall == Call("compile_sketch", c.exc = NoExc, None, c.value)
       IN IF c.exc # NoExc
          THEN [exc |-> c.exc, fs |-> w.fs, calls |-> <<wcall, ccall>> \o c.calls,
                value |-> None]
          ELSE IF CompileFailed(c.value[1])
          THEN [exc |-> NoExc, fs |-> w.fs, calls |-> <<wcall, ccall>> \o c.calls,
                value |-> Some([success |-> FALSE, stage |-> "compile",
                                error |-> c.value[1].errors])]
          ELSE
          LET u     == upload_sketch(w.fs, path, port, board_fqbn, env.up)
              ucall == Call("upload_sketch", u.exc = NoExc, None, u.value)
              all   == <<wcall, ccall>> \o c.calls \o <<ucall>> \o u.calls
          IN IF u.exc # NoExc
             THEN [exc |-> u.exc, fs |-> w.fs, calls |-> all, value |-> None]
             ELSE IF UploadFailed(u.value[1])
             THEN [exc |-> NoExc, fs |-> w.fs, calls |-> all,
                   value |-> Some([success |-> FALSE, stage |-> "upload",
                                   error |-> u.value[1].errors])]
             ELSE [exc |-> NoExc, fs |-> w.fs, calls |-> all,
                   value |-> Some([success |-> TRUE,
                                   message |-> "Code deployed successfully! Check if your hardware is now working.",
                                   sketch_path |-> path])]

(***************************************************************************)
(* Calls and their handling.  A call arrives (Invoke) and is then handled  *)
(* whole by the action of its operation; the handlers are synchronous code *)
(* with no suspension point.                                               *)
(***************************************************************************)
Req(op, code, name, port, fqbn, path) ==
    [op |-> op, code |-> code, name |-> name, port |-> port, fqbn |-> fqbn,
     path |-> path]

NoReq == Req("none", EmptyFile, <<>>, <<>>, DefaultFqbn, <<>>)

\* the sketch paths a caller may pass to compile_sketch and upload_sketch
DeployPaths == {FolderPath(SafeName(n)) : n \in DeployNames}

WriteRequests(names) ==
    {Req("write_sketch", c, n, <<>>, DefaultFqbn, <<>>) : c \in Codes, n \in names}

CompileRequests ==
    {Req("compile_sketch", EmptyFile, <<>>, <<>>, DefaultFqbn, p) : p \in DeployPaths}

UploadRequests ==
    {Req("upload_sketch", EmptyFile, <<>>, pt, DefaultFqbn, p) :
        pt \in Ports, p \in DeployPaths}

DeployRequests(op) ==
    {Req(op, c, n, pt, DefaultFqbn, <<>>) : c \in Codes, n \in DeployNames, pt \in Ports}

Requests ==
    WriteRequests(DeployNames) \cup CompileRequests \cup UploadRequests
    \cup DeployRequests("deploy_code") \cup DeployRequests("agent_deploy_code")

\* the history of write_sketch calls after one more call, which ended as w
Remember(hist, code, name, w) ==
    LET d == SafeName(name)
        e == [code |-> IF w.exc = NoExc THEN code ELSE EmptyFile,
              returned |-> w.exc = NoExc, path |-> w.value]
    IN [x \in DOMAIN hist \cup {d} |-> IF x = d THEN e ELSE hist[x]]

Arrive(r) ==
    /\ phase # "pending"
    /\ req' = r
    /\ phase' = "pending"
    /\ ret' = None
    /\ exc' = NoExc
    /\ calls' = <<>>
    /\ UNCHANGED <<fs, last, tasks>>

Invoke == \E r \in Requests : Arrive(r)

Handling(op) == phase = "pending" /\ req.op = op

WriteSketch ==
    /\ Handling("write_sketch")
    /\ \E stop \in WriteOutcomes :
          \E w \in {write_sketch(fs, req.code, req.name, stop)} :
             /\ fs' = w.fs
             /\ ret' = w.value
             /\ exc' = w.exc
             /\ calls' = IF stop = "mkdir" THEN <<>>
                         ELSE <<Call("write_text", w.exc = NoExc,
                                     SketchSource(fs, FolderPath(SafeName(req.name))),
                                     None)>>
             /\ last' = Remember(last, req.code, req.name, w)
    /\ phase' = "done"
    /\ UNCHANGED <<req, tasks>>

CompileSketch ==
    /\ Handling("compile_sketch")
    /\ \E run \in CompileRuns :
          \E c \in {compile_sketch(fs, req.path, req.fqbn, run)} :
             /\ ret' = c.value
             /\ exc' = c.exc
             /\ calls' = c.calls
    /\ phase' = "done"
    /\ UNCHANGED <<fs, req, last, tasks>>

UploadSketch ==
    /\ Handling("upload_sketch")
    /\ \E env \in UploadEnvs :
          \E u \in {upload_sketch(fs, req.path, req.port, req.fqbn, env)} :
             /\ ret' = u.value
             /\ exc' = u.exc
             /\ calls' = u.calls
    /\ phase' = "done"
    /\ UNCHANGED <<fs, req, last, tasks>>

DeployCode ==
    /\ Handling("deploy_code")
    /\ \E env \in DeployEnvs :
          \E d \in {deploy_code(fs, req.code, req.port, req.name, req.fqbn, env)} :
             /\ fs' = d.fs
             /\ ret' = d.value
             /\ exc' = d.exc
             /\ calls' = d.calls
             /\ last' = Remember(last, req.code, req.name,
                                 write_sketch(fs, req.code, req.name, env.stop))
    /\ phase' = "done"
    /\ UNCHANGED <<req, tasks>>

AgentDeployCode ==
    /\ Handling("agent_deploy_code")
    /\ \E env \in DeployEnvs :
          \E d \in {agent_deploy_code(fs, req.code, req.port, req.name, req.fqbn,
                                       env)} :
             /\ fs' = d.fs
             /\ ret' = d.value
             /\ exc' = d.exc
             /\ calls' = d.calls
             /\ last' = Remember(last, req.code, req.name,
                                 write_sketch(fs, req.code, req.name, env.stop))
    /\ phase' = "done"
    /\ UNCHANGED <<req, tasks>>

\* SKETCH_DIR exists and is empty, nothing was called
Init ==
    /\ fs = [d \in {} |-> NoFiles]
    /\ phase = "idle"
    /\ req = NoReq
    /\ ret = None
    /\ exc = NoExc
    /\ calls = <<>>
    /\ last = [d \in {} |-> [code |-> EmptyFile, returned |-> FALSE,
                             path |-> None]]
    /\ tasks = <<>>

Next ==
    \/ Invoke
    \/ WriteSketch
    \/ CompileSketch
    \/ UploadSketch
    \/ DeployCode
    \/ AgentDeployCode

Spec == Init /\ [][Next]_vars

(***************************************************************************)
(* The sketch writer alone, called with every name of NameInputs.          *)
(***************************************************************************)
InvokeWrite == \E r \in WriteRequests(NameInputs) : Arrive(r)

NextWrite ==
    \/ InvokeWrite
    \/ WriteSketch

SpecWrite == Init /\ [][NextWrite]_vars

(***************************************************************************)
(* Board discovery: list_arduino_boards                                    *)
(***************************************************************************)
ArduinoWord ==
    <<"a","r","d","u","i","n","o">>

SerialWord ==
    <<"s","e","r","i","a","l">>

UnknownArduino ==
    <<"U","n","k","n","o","w","n"," ","A","r","d","u","i","n","o">>

\* Known Arduino / clone USB-to-serial VIDs: 0x2341, 0x1a86, 0x0403, 0x10c4,
\* 0x067b
ARDUINO_VIDS == {9025, 6790, 1027, 4292, 1659}

HexChars ==
    <<"0","1","2","3","4","5","6","7","8","9","a","b","c","d","e","f">>

RECURSIVE HexDigits(_)
HexDigits(n) ==
    IF n < 16 THEN <<HexChars[n + 1]>>
    ELSE HexDigits(n \div 16) \o <<HexChars[(n % 16) + 1]>>

\* Python's hex() of a natural number
Hex(n) == <<"0", "x">> \o HexDigits(n)

\* JSON values as json.loads gives them: null, a string, a list, a dict
JNull == [t |-> "null"]

JStr(s) == [t |-> "str", s |-> s]

JArr(items) == [t |-> "arr", items |-> items]

JObj(f) == [t |-> "obj", f |-> f]

\* what arduino-cli printed when it is no JSON at all
NotJson == [t |-> "invalid"]

\* dict.get(key, default)
Get(d, key, default) == IF key \in DOMAIN d.f THEN d.f[key] ELSE default

\* Python truthiness of a JSON value
JTruthy(v) ==
    CASE v.t = "str" -> v.s # <<>>
      [] v.t = "arr" -> v.items # <<>>
      [] v.t = "obj" -> DOMAIN v.f # {}
      [] OTHER -> FALSE

\* one entry of comports()
PortInfo(device, description, hwid, vid, pid) ==
    [device |-> device, description |-> description, hwid |-> hwid, vid |-> vid,
     pid |-> pid]

\* is_arduino of Method 1
is_arduino(port) ==
    \/ /\ ~IsNone(port.vid)
       /\ port.vid[1] \in ARDUINO_VIDS
    \/ /\ Truthy(port.description)
       /\ Contains(ArduinoWord, StrLower(port.description[1]))

\* the record Method 1 appends for a matching port
HeuristicRecord(port) ==
    [port |-> port.device,
     description |-> IF Truthy(port.description) THEN port.description[1]
                     ELSE UnknownArduino,
     hwid |-> port.hwid,
     vid |-> IF ~IsNone(port.vid) /\ port.vid[1] # 0 THEN Some(Hex(port.vid[1]))
             ELSE None,
     pid |-> IF ~IsNone(port.pid) /\ port.pid[1] # 0 THEN Some(Hex(port.pid[1]))
             ELSE None]

RECURSIVE PySerialBoards(_)
\* Method 1: the records of the matching ports, in the order of comports()
PySerialBoards(ports) ==
    IF ports = <<>> THEN <<>>
    ELSE (IF is_arduino(Head(ports)) THEN <<HeuristicRecord(Head(ports))>> ELSE <<>>)
         \o PySerialBoards(Tail(ports))

\* the body of Method 2's loop for one entry of "detected_ports": the
\* exception it raises (or none) and the records it appends (none or one)
DetectedBoards(detected) ==
    IF detected.t # "obj"
    THEN [exc |-> Exc("AttributeError", <<>>), boards |-> <<>>]
    ELSE
    LET port_info == Get(detected, "port", JObj(<<>>))
    IN IF port_info.t # "obj"
       THEN [exc |-> Exc("AttributeError", <<>>), boards |-> <<>>]
       ELSE
       LET address  == Get(port_info, "address", JStr(<<>>))
           protocol == Get(port_info, "protocol", JStr(<<>>))
           matching == Get(detected, "matching_boards", JNull)
       IN IF ~JTruthy(address)
          THEN [exc |-> NoExc, boards |-> <<>>]
          ELSE IF JTruthy(protocol) /\ ~Contains(SerialWord, protocol.s)
          THEN [exc |-> NoExc, boards |-> <<>>]
          ELSE IF JTruthy(matching)
          THEN LET board_info == matching.items[1]
               IN IF board_info.t # "obj"
                  THEN [exc |-> Exc("AttributeError", <<>>), boards |-> <<>>]
                  ELSE [exc |-> NoExc,
                        boards |-> <<[port |-> address.s,
                                      board_name |->
                                          Get(board_info, "name",
                                              JStr("Unknown Board")).s,
                                      fqbn |-> Get(board_info, "fqbn",
                                                   JStr(DefaultFqbn)).s,
                                      protocol |-> protocol.s]>>]
          ELSE [exc |-> NoExc,
                boards |-> <<[port |-> address.s,
                              board_name |-> "Arduino (clone/unrecognised)",
                              fqbn |-> DefaultFqbn,
                              protocol |-> protocol.s]>>]

RECURSIVE DetectedLoop(_)
\* the loop over "detected_ports": it stops at the first exception
DetectedLoop(items) ==
    IF items = <<>> THEN [exc |-> NoExc, boards |-> <<>>]
    ELSE LET one == DetectedBoards(Head(items))
         IN IF one.exc # NoExc THEN one
            ELSE LET rest == DetectedLoop(Tail(items))
                 IN [exc |-> rest.exc, boards |-> one.boards \o rest.boards]

\* Method 2: the arduino-cli board list invocation ending as `run`, whose
\* stdout is the JSON value printed (or NotJson)
ArduinoCliBoards(run) ==
    CASE run.kind \in {"FileNotFoundError", "TimeoutExpired"} ->
            [exc |-> NoExc, boards |-> <<>>]
      [] run.kind # "exit" -> [exc |-> Exc(run.kind, ExecErrorText), boards |-> <<>>]
      [] run.returncode # 0 -> [exc |-> NoExc, boards |-> <<>>]
      [] run.stdout.t = "invalid" -> [exc |-> NoExc, boards |-> <<>>]
      [] run.stdout.t # "obj" -> [exc |-> Exc("AttributeError", <<>>), boards |-> <<>>]
      [] OTHER ->
            LET ports == Get(run.stdout, "detected_ports", JArr(<<>>))
            IN IF ports.t # "arr"
               THEN [exc |-> Exc("TypeError", <<>>), boards |-> <<>>]
               ELSE DetectedLoop(ports.items)

\* every board kept, seen or not
KeepAllBoards(boards, seen_ports) == boards

RECURSIVE Deduplicate(_, _)
\* "Deduplicate by port": the boards whose port is not in seen_ports, each
\* port once
Deduplicate(boards, seen_ports) ==
    IF boards = <<>> THEN <<>>
    ELSE IF Head(boards).port \notin seen_ports
         THEN <<Head(boards)>>
              \o Deduplicate(Tail(boards), seen_ports \cup {Head(boards).port})
         ELSE Deduplicate(Tail(boards), seen_ports)

\* the records of arduino-cli ahead of those of pyserial
CliBoardsFirst(pyserial, cli) == cli \o pyserial

\* what the two methods appended to arduino_boards, in order
arduino_boards(pyserial, cli) == pyserial \o cli

\* list_arduino_boards() when pyserial is (not) installed, comports()
\* returns `ports` and the arduino-cli invocation ends as `run`
list_arduino_boards(has_serial, ports, run) ==
    LET pyserial == IF has_serial THEN PySerialBoards(ports) ELSE <<>>
        cli      == ArduinoCliBoards(run)
    IN IF cli.exc # NoExc
       THEN [exc |-> cli.exc, value |-> None]
       ELSE [exc |-> NoExc,
             value |-> Some(Deduplicate(arduino_boards(pyserial, cli.boards), {}))]

(***************************************************************************)
(* Inputs of board discovery.                                              *)
(***************************************************************************)
DescUno ==
    <<"A","r","d","u","i","n","o"," ","U","n","o">>

DescCh340 ==
    <<"U","S","B","2",".","0","-","S","e","r","i","a","l">>

DescClone ==
    <<"A","R","D","U","I","N","O"," ","c","l","o","n","e">>

HwidUsb ==
    <<"U","S","B"," ","V","I","D",":","P","I","D">>

HwidNone ==
    <<"n","/","a">>

\* an Arduino by its vendor id; a port of an unlisted vendor; an Arduino by
\* its description only; a CH340 clone with no description; a port with
\* nothing to go by
PortInfos ==
    { PortInfo(PortUSB0, Some(DescUno), HwidUsb, Some(9025), Some(67)),
      PortInfo(PortUSB0, Some(DescCh340), HwidUsb, Some(1133), Some(67)),
      PortInfo(PortUSB0, Some(DescClone), HwidNone, None, None),
      PortInfo(PortACM0, None, HwidUsb, Some(6790), Some(29987)),
      PortInfo(PortACM0, None, HwidNone, None, None) }

RECURSIVE SeqsUpTo(_, _)
\* the sequences over S of length at most n
SeqsUpTo(S, n) ==
    IF n = 0 THEN {<<>>}
    ELSE LET shorter == SeqsUpTo(S, n - 1)
         IN shorter \cup {Append(s, x) : s \in shorter, x \in S}

ProtoNetwork ==
    <<"n","e","t","w","o","r","k">>

Field(k, v) == [x \in {k} |-> v]

Board(name, fqbn) == JObj(Field("name", JStr(name)) @@ Field("fqbn", JStr(fqbn)))

Detected(address, protocol, boards) ==
    JObj(Field("port", JObj(Field("address", JStr(address))
                            @@ Field("protocol", JStr(protocol))))
         @@ Field("matching_boards", JArr(boards)))

\* entries of "detected_ports": a recognised Uno; a clone with no match; a
\* Mega listed with a second match; a network port; an entry with an empty
\* address; an entry with no protocol and a match with no name or fqbn; an
\* entry whose "port" is null
DetectedEntries ==
    { Detected(PortUSB0, SerialWord, <<Board("Arduino Uno", DefaultFqbn)>>),
      Detected(PortUSB0, SerialWord, <<>>),
      Detected(PortACM0, SerialWord,
               <<Board("Arduino Mega", "arduino:avr:mega"),
                 Board("Arduino Uno", DefaultFqbn)>>),
      Detected(PortACM0, ProtoNetwork, <<Board("Arduino Uno", DefaultFqbn)>>),
      Detected(<<>>, SerialWord, <<>>),
      JObj(Field("port", JObj(Field("address", JStr(PortACM0))))
           @@ Field("matching_boards", JArr(<<JObj(<<>>)>>))),
      JObj(Field("port", JNull)) }

BoardListRan(rc, stdout) == [kind |-> "exit", returncode |-> rc, stdout |-> stdout]

\* how the arduino-cli board list invocation may end: the binary is missing,
\* it times out, it may not be executed, it exits non-zero, it prints no
\* JSON, a JSON list (the format of older arduino-cli versions), a dict
\* without "detected_ports", a dict whose "detected_ports" is null, or a dict
\* with a list of entries
BoardListRuns ==
    { [kind |-> k, returncode |-> -1, stdout |-> NotJson] :
          k \in {"FileNotFoundError", "TimeoutExpired", "PermissionError"} }
    \cup { BoardListRan(1, NotJson), BoardListRan(0, NotJson),
           BoardListRan(0, JArr(<<>>)), BoardListRan(0, JObj(<<>>)),
           BoardListRan(0, JObj(Field("detected_ports", JNull))) }
    \cup { BoardListRan(0, JObj(Field("detected_ports", JArr(es)))) :
              es \in SeqsUpTo(DetectedEntries, MaxDetected) }

\* the environments of one discovery; comports() is not called without pyserial
Probes ==
    [has_serial : {TRUE}, ports : SeqsUpTo(PortInfos, MaxPorts), run : BoardListRuns]
    \cup [has_serial : {FALSE}, ports : {<<>>}, run : BoardListRuns]

BoardRequests ==
    { [op |-> "list_arduino_boards", probe |-> p] : p \in Probes }

ListBoards ==
    /\ Handling("list_arduino_boards")
    /\ \E b \in {list_arduino_boards(req.probe.has_serial, req.probe.ports,
                                     req.probe.run)} :
          /\ ret' = b.value
          /\ exc' = b.exc
    /\ calls' = <<Call("arduino-cli board list", RunSucceeds(req.probe.run), None,
                       None)>>
    /\ phase' = "done"
    /\ UNCHANGED <<fs, req, last, tasks>>

\* a discovery call has arrived, in one of the environments
InitBoards ==
    /\ fs = [d \in {} |-> NoFiles]
    /\ phase = "pending"
    /\ req \in BoardRequests
    /\ ret = None
    /\ exc = NoExc
    /\ calls = <<>>
    /\ last = [d \in {} |-> [code |-> EmptyFile, returned |-> FALSE,
                             path |-> None]]
    /\ tasks = <<>>

NextBoards == ListBoards

SpecBoards == InitBoards /\ [][NextBoards]_vars

(***************************************************************************)
(* The REST endpoints: POST /api/upload and POST /api/token of             *)
(* api_server.py, POST /upload and POST /token of main.py.                 *)
(***************************************************************************)
\* raise HTTPException(status_code=..., detail=...)
HTTPException(status_code, detail) ==
    [type |-> "HTTPException", text |-> detail, status_code |-> status_code]

\* the optional text left out of the f-string
FormatsNothing(o) == <<>>

\* an optional text inside an f-string
FormatOptional(o) == IF IsNone(o) THEN <<"N","o","n","e">> ELSE o[1]

CompilationFailedPrefix ==
        <<"C","o","m","p","i","l","a","t","i","o","n"," ","f","a","i","l","e","d",
      ":"," ">>

UploadFailedPrefix ==
        <<"U","p","l","o","a","d"," ","f","a","i","l","e","d",":"," ">>

UploadedPrefix ==
    <<"C","o","d","e"," ","u","p","l","o","a","d","e","d"," ","s","u","c","c",
      "e","s","s","f","u","l","l","y"," ","t","o"," ">>

WriteFailedPrefix ==
        <<"F","a","i","l","e","d"," ","t","o"," ","w","r","i","t","e"," ","s","k",
      "e","t","c","h",":"," ">>

\* "editor_sketch", the name POST /upload writes under
EditorSketchName ==
        <<"e","d","i","t","o","r","_","s","k","e","t","c","h">>

\* a name a client of POST /api/upload may send, sanitized to "editor_sketch"
ClientSketchName ==
        <<"E","d","i","t","o","r","_","S","k","e","t","c","h","!">>

MegaFqbn == "arduino:avr:mega"

\* one entry of the trace for a stage of an endpoint: as Call, with the FQBN
\* the stage was called with
StageCall(fn, ok, fqbn, out) ==
    [fn |-> fn, ok |-> ok, src |-> None, out |-> out, fqbn |-> fqbn]

\* upload_code of api_server.py (POST /api/upload)
upload_code(fsys, code, board, board_fqbn, sketch_name, env) ==
    LET w     == write_sketch(fsys, code, sketch_name, env.stop)
        wcall == Call("write_sketch", w.exc = NoExc, None, w.value)
    IN IF w.exc # NoExc
       THEN [exc |-> HTTPException(500, w.exc.text), fs |-> w.fs,
             calls |-> <<wcall>>, value |-> None]
       ELSE
       LET sketch_path == w.value[1]
           c     == compile_sketch(w.fs, sketch_path, board_fqbn, env.crun)
           ccall == StageCall("compile_sketch", c.exc = NoExc, board_fqbn, c.value)
       IN IF c.exc # NoExc
          THEN [exc |-> HTTPException(500, c.exc.text), fs |-> w.fs,
                calls |-> <<wcall, ccall>> \o c.calls, value |-> None]
          ELSE IF CompileFailed(c.value[1])
          THEN [exc |-> HTTPException(400, CompilationFailedPrefix
                                           \o FormatOptional(c.value[1].errors)),
                fs |-> w.fs, calls |-> <<wcall, ccall>> \o c.calls, value |-> None]
          ELSE
          LET u     == upload_sketch(w.fs, sketch_path, board, board_fqbn, env.up)
              ucall == StageCall("upload_sketch", u.exc = NoExc, board_fqbn, u.value)
              all   == <<wcall, ccall>> \o c.calls \o <<ucall>> \o u.calls
          IN IF u.exc # NoExc
             THEN [exc |-> HTTPException(500, u.exc.text), fs |-> w.fs,
                   calls |-> all, value |-> None]
             ELSE IF UploadFailed(u.value[1])
             THEN [exc |-> HTTPException(400, UploadFailedPrefix
                                              \o FormatOptional(u.value[1].errors)),
                   fs |-> w.fs, calls |-> all, value |-> None]
             ELSE [exc |-> NoExc, fs |-> w.fs, calls |-> all,
                   value |-> Some([success |-> TRUE,
                                   message |-> UploadedPrefix \o board \o <<"!">>,
                                   sketch_path |-> sketch_path])]

\* next((b for b in boards if b["port"] == req.board), None)
MatchedBoard(boards, board) ==
    LET hits == SelectSeq(boards, LAMBDA b : b.port = board)
    IN IF hits = <<>> THEN None ELSE Some(hits[1])

\* matched and matched.get("fqbn")
HasFqbn(matched) ==
    /\ ~IsNone(matched)
    /\ "fqbn" \in DOMAIN matched[1]
    /\ matched[1].fqbn # ""

\* if not fqbn or fqbn == "arduino:avr:uno"
NeedsLookup(fqbn) == fqbn = "" \/ fqbn = DefaultFqbn

\* "Determine FQBN": the FQBN to build with, given what discovery returned
ResolveFqbn(fqbn, boards, board) ==
    LET matched == MatchedBoard(boards, board)
    IN IF HasFqbn(matched) THEN matched[1].fqbn ELSE fqbn

\* upload_code_endpoint of main.py (POST /upload)
upload_code_endpoint(fsys, code, board, req_fqbn, env) ==
    LET w     == write_sketch(fsys, code, EditorSketchName, env.stop)
        wcall == Call("write_sketch", w.exc = NoExc, None, w.value)
    IN IF w.exc # NoExc
       THEN [exc |-> HTTPException(500, WriteFailedPrefix \o w.exc.text),
             fs |-> w.fs, calls |-> <<wcall>>, value |-> None]
       ELSE
       LET path   == w.value[1]
           lookup == NeedsLookup(req_fqbn)
           found  == IF lookup
                     THEN list_arduino_boards(env.probe.has_serial, env.probe.ports,
                                              env.probe.run)
                     ELSE [exc |-> NoExc, value |-> Some(<<>>)]
           lcalls == IF lookup
                     THEN <<Call("list_arduino_boards", found.exc = NoExc, None,
                                 found.value),
                            Call("arduino-cli board list", RunSucceeds(env.probe.run),
                                 None, Some(env.probe.run))>>
                     ELSE <<>>
       IN IF found.exc # NoExc
          THEN [exc |-> found.exc, fs |-> w.fs, calls |-> <<wcall>> \o lcalls,
                value |-> None]
          ELSE
          LET fqbn  == IF lookup THEN ResolveFqbn(req_fqbn, found.value[1], board)
                       ELSE req_fqbn
              c     == compile_sketch(w.fs, path, fqbn, env.crun)
              ccall == StageCall("compile_sketch", c.exc = NoExc, fqbn, c.value)
              head  == <<wcall>> \o lcalls \o <<ccall>> \o c.calls
          IN IF c.exc # NoExc
             THEN [exc |-> c.exc, fs |-> w.fs, calls |-> head, value |-> None]
             ELSE IF CompileFailed(c.value[1])
             THEN [exc |-> NoExc, fs |-> w.fs, calls |-> head,
                   value |-> Some([success |-> FALSE, stage |-> "compile",
                                   error |-> c.value[1].errors])]
             ELSE
             LET u     == upload_sketch(w.fs, path, board, fqbn, env.up)
                 ucall == StageCall("upload_sketch", u.exc = NoExc, fqbn, u.value)
                 all   == head \o <<ucall>> \o u.calls
             IN IF u.exc # NoExc
                THEN [exc |-> u.exc, fs |-> w.fs, calls |-> all, value |-> None]
                ELSE IF UploadFailed(u.value[1])
                THEN [exc |-> NoExc, fs |-> w.fs, calls |-> all,
                      value |-> Some([success |-> FALSE, stage |-> "upload",
                                      error |-> u.value[1].errors])]
                ELSE [exc |-> NoExc, fs |-> w.fs, calls |-> all,
                      value |-> Some([success |-> TRUE,
                                      message |-> UploadedPrefix \o board \o <<"!">>,
                                      fqbn |-> fqbn])]

\* os.getenv(name, ""): the variable is unset (None) or holds a text
Getenv(value) == IF IsNone(value) THEN <<>> ELSE value[1]

\* the test of the secret left out
SecretTakenAsIs(secret) == FALSE

\* if not STREAM_API_SECRET / if not secret
SecretMissing(secret) == secret = <<>>

ApiSecretMissingText ==
        <<"S","T","R","E","A","M","_","A","P","I","_","S","E","C","R","E","T"," ",
      "n","o","t"," ","c","o","n","f","i","g","u","r","e","d">>

SecretMissingText ==
        <<"S","T","R","E","A","M","_","A","P","I","_","S","E","C","R","E","T"," ",
      "n","o","t"," ","c","o","n","f","i","g","u","r","e","d"," ","i","n"," ",
      ".","e","n","v">>

\* the lifetime of a token, in seconds: 3600 * 24 in api_server.py
ApiTokenLifetime == 3600 * 24

\* jwt.encode(payload, key, algorithm="HS256"): the signed payload
JwtEncode(payload, key) == [alg |-> "HS256", payload |-> payload, key |-> key]

\* generate_token of api_server.py (POST /api/token), STREAM_API_SECRET
\* being what the environment held when the module was loaded
api_generate_token(secret_env, user_id, now) ==
    LET STREAM_API_SECRET == Getenv(secret_env)
    IN IF SecretMissing(STREAM_API_SECRET)
       THEN [exc |-> HTTPException(500, ApiSecretMissingText), value |-> None]
       ELSE LET payload == [user_id |-> user_id, iat |-> now,
                            exp |-> now + ApiTokenLifetime]
            IN [exc |-> NoExc,
                value |-> Some([token |-> JwtEncode(payload, STREAM_API_SECRET),
                                user_id |-> user_id])]

\* generate_token of main.py (POST /token)
generate_token(secret_env, user_id, now) ==
    LET secret == Getenv(secret_env)
    IN IF SecretMissing(secret)
       THEN [exc |-> HTTPException(500, SecretMissingText), value |-> None]
       ELSE LET payload == [user_id |-> user_id, iat |-> now,
                            exp |-> now + TokenLifetime]
            IN [exc |-> NoExc,
                value |-> Some([token |-> JwtEncode(payload, secret),
                                user_id |-> user_id])]

(***************************************************************************)
(* Inputs of the REST endpoints.                                           *)
(***************************************************************************)
CliMissing ==
    [kind |-> "FileNotFoundError", returncode |-> -1, stdout |-> NotJson]

\* discovery is not asked: one environment stands for all
IdleProbe == [has_serial |-> FALSE, ports |-> <<>>, run |-> CliMissing]

MegaOnACM0 ==
    Detected(PortACM0, SerialWord,
             <<Board("Arduino Mega", MegaFqbn), Board("Arduino Uno", DefaultFqbn)>>)

CliReports(entries) ==
    BoardListRan(0, JObj(Field("detected_ports", JArr(entries))))

\* what discovery may find when POST /upload looks the board up: nothing;
\* a Mega on ttyACM0 that arduino-cli recognises, alone, next to a heuristic
\* match for the same port (vendor 0x2341), and next to an unmatched
\* enumeration entry for it; a heuristic match only; a clone arduino-cli does not
\* recognise; arduino-cli printing a JSON list
LookupProbes ==
    { [has_serial |-> FALSE, ports |-> <<>>, run |-> CliMissing],
      [has_serial |-> FALSE, ports |-> <<>>, run |-> CliReports(<<MegaOnACM0>>)],
      [has_serial |-> TRUE,
       ports |-> <<PortInfo(PortACM0, None, HwidUsb, Some(9025), Some(66))>>,
       run |-> CliReports(<<MegaOnACM0>>)],
      [has_serial |-> TRUE,
       ports |-> <<PortInfo(PortACM0, None, HwidNone, None, None)>>,
       run |-> CliReports(<<MegaOnACM0>>)],
      [has_serial |-> TRUE,
       ports |-> <<PortInfo(PortUSB0, Some(DescUno), HwidUsb, Some(9025), Some(67))>>,
       run |-> CliMissing],
      [has_serial |-> FALSE, ports |-> <<>>,
       run |-> CliReports(<<Detected(PortUSB0, SerialWord, <<>>)>>)],
      [has_serial |-> FALSE, ports |-> <<>>, run |-> BoardListRan(0, JArr(<<>>))] }

ProbeRaises(p) == list_arduino_boards(p.has_serial, p.ports, p.run).exc # NoExc

\* the environments of one POST /upload: as DeployEnvs, with what discovery
\* finds when it is asked (lookup)
EndpointEnvs(lookup) ==
    LET asked == IF lookup THEN {p \in LookupProbes : ~ProbeRaises(p)}
                 ELSE {IdleProbe}
        raise == IF lookup THEN {p \in LookupProbes : ProbeRaises(p)} ELSE {}
    IN [stop : WriteOutcomes \ {"ok"}, probe : {IdleProbe}, crun : {IdleRun},
        up : {IdleUpload}]
       \cup [stop : {"ok"}, probe : raise, crun : {IdleRun}, up : {IdleUpload}]
       \cup [stop : {"ok"}, probe : asked,
             crun : {r \in CompileRuns : ~RunSucceeds(r)}, up : {IdleUpload}]
       \cup [stop : {"ok"}, probe : asked,
             crun : {r \in CompileRuns : RunSucceeds(r)}, up : UploadEnvs]

LookupEnvs == EndpointEnvs(TRUE)

NoLookupEnvs == EndpointEnvs(FALSE)

\* the FQBNs a client of POST /upload may send: none, the default, another
RequestFqbns == {"", DefaultFqbn, MegaFqbn}

ApiUploadRequests ==
    {Req("api_upload", c, ClientSketchName, pt, DefaultFqbn, <<>>) :
        c \in Codes, pt \in Ports}

EndpointRequests ==
    {Req("upload", c, EditorSketchName, pt, f, <<>>) :
        c \in Codes, pt \in Ports, f \in RequestFqbns}

UserIds == { <<>>, <<"u","1">> }

\* STREAM_API_SECRET in the environment: unset, empty, set
SecretEnvs == { None, Some(<<>>), Some(<<"s","3","c","r","3","t">>) }

\* int(time.time())
Epochs == {0, MaxEpoch}

TokenRequests ==
    {[op |-> o, user_id |-> u, secret_env |-> e, now |-> n] :
        o \in {"api_token", "token"}, u \in UserIds, e \in SecretEnvs, n \in Epochs}

RestRequests == ApiUploadRequests \cup EndpointRequests \cup TokenRequests

InvokeRest == \E r \in RestRequests : Arrive(r)

ApiUpload ==
    /\ Handling("api_upload")
    /\ \E env \in DeployEnvs :
          \E d \in {upload_code(fs, req.code, req.port, req.fqbn, req.name, env)} :
             /\ fs' = d.fs
             /\ ret' = d.value
             /\ exc' = d.exc
             /\ calls' = d.calls
             /\ last' = Remember(last, req.code, req.name,
                                 write_sketch(fs, req.code, req.name, env.stop))
    /\ phase' = "done"
    /\ UNCHANGED <<req, tasks>>

UploadEndpoint ==
    /\ Handling("upload")
    /\ \E env \in IF NeedsLookup(req.fqbn) THEN LookupEnvs ELSE NoLookupEnvs :
          \E d \in {upload_code_endpoint(fs, req.code, req.port, req.fqbn, env)} :
             /\ fs' = d.fs
             /\ ret' = d.value
             /\ exc' = d.exc
             /\ calls' = d.calls
             /\ last' = Remember(last, req.code, req.name,
                                 write_sketch(fs, req.code, req.name, env.stop))
    /\ phase' = "done"
    /\ UNCHANGED <<req, tasks>>

ApiToken ==
    /\ Handling("api_token")
    /\ \E t \in {api_generate_token(req.secret_env, req.user_id, req.now)} :
          /\ ret' = t.value
          /\ exc' = t.exc
    /\ calls' = <<>>
    /\ phase' = "done"
    /\ UNCHANGED <<fs, req, last, tasks>>

Token ==
    /\ Handling("token")
    /\ \E t \in {generate_token(req.secret_env, req.user_id, req.now)} :
          /\ ret' = t.value
          /\ exc' = t.exc
    /\ calls' = <<>>
    /\ phase' = "done"
    /\ UNCHANGED <<fs, req, last, tasks>>

NextRest ==
    \/ InvokeRest
    \/ ApiUpload
    \/ UploadEndpoint
    \/ ApiToken
    \/ Token

SpecRest == Init /\ [][NextRest]_vars

(***************************************************************************)
(* read_serial.  Time is counted in ticks of 0.1 s, the length of the      *)
(* loop's sleep.  The coroutine is suspended in its sleeps, where other    *)
(* handlers may run; it shares nothing with them, so the call is handled   *)
(* here in one step, over the readings of the clock and of the port that   *)
(* the environment feeds it.                                               *)
(***************************************************************************)
NoPyserialText ==
    <<"E","r","r","o","r",":"," ","p","y","s","e","r","i","a","l"," ","n","o",
      "t"," ","i","n","s","t","a","l","l","e","d">>

SerialErrorPrefix ==
    <<"S","e","r","i","a","l"," ","e","r","r","o","r",":"," ">>

ReadErrorPrefix ==
    <<"E","r","r","o","r"," ","r","e","a","d","i","n","g"," ","s","e","r","i",
      "a","l",":"," ">>

NoOutputText ==
    <<"N","o"," ","s","e","r","i","a","l"," ","o","u","t","p","u","t"," ","r",
      "e","c","e","i","v","e","d">>

PortBusyText ==
    <<"c","o","u","l","d"," ","n","o","t"," ","o","p","e","n"," ","p","o","r",
      "t">>

BadBaudrateText ==
    <<"N","o","t"," ","a"," ","v","a","l","i","d"," ","b","a","u","d","r","a",
      "t","e">>

UnpluggedText ==
    <<"d","e","v","i","c","e"," ","r","e","p","o","r","t","s"," ","r","e","a",
      "d","i","n","e","s","s"," ","t","o"," ","r","e","a","d"," ","b","u","t",
      " ","r","e","t","u","r","n","e","d"," ","n","o"," ","d","a","t","a">>

\* a byte that is no UTF-8
InvalidByte == "0xFF"

\* bytes.decode("utf-8", errors="ignore")
Decode(bytes) == SelectSeq(bytes, LAMBDA b : b # InvalidByte)

Whitespace == {" ", "\n", "\r", "\t"}

RECURSIVE LStrip(_)
LStrip(t) == IF t # <<>> /\ Head(t) \in Whitespace THEN LStrip(Tail(t)) ELSE t

RECURSIVE RStrip(_)
RStrip(t) ==
    IF t # <<>> /\ t[Len(t)] \in Whitespace THEN RStrip(SubSeq(t, 1, Len(t) - 1))
    ELSE t

\* str.strip()
Strip(t) == RStrip(LStrip(t))

RECURSIVE JoinLines(_)
\* "\n".join(output_lines)
JoinLines(lines) ==
    IF lines = <<>> THEN <<>>
    ELSE IF Len(lines) = 1 THEN lines[1]
    ELSE lines[1] \o <<"\n">> \o JoinLines(Tail(lines))

\* the loop goes on as it would if the end time itself were still in time
TimeLeftInclusive(now, end_time) == now <= end_time

\* while asyncio.get_event_loop().time() < end_time
TimeLeft(now, end_time) == now < end_time

RECURSIVE PollLoop(_, _, _, _, _)
\* the polling loop from the clock reading `now` on, with the lines collected
\* so far and the trace so far; feed[1] is what the next pass meets: whether
\* in_waiting raises or how many bytes wait, what readline gives, and how
\* long the sleep lasts (late ticks beyond the one asked for)
PollLoop(now, end_time, feed, output_lines, trace) ==
    IF ~TimeLeft(now, end_time) \/ feed = <<>>
    THEN [exc |-> NoExc, lines |-> output_lines, calls |-> trace]
    ELSE
    LET e == feed[1]
    IN IF e.waiting = "raises"
       THEN [exc |-> Exc("SerialException", UnpluggedText), lines |-> output_lines,
             calls |-> Append(trace, Call("in_waiting", FALSE, None, None))]
       ELSE
       LET seen == Append(trace, Call("in_waiting", TRUE, None, None))
       IN IF e.waiting = "none"
          THEN PollLoop(now + 1 + e.late, end_time, Tail(feed), output_lines, seen)
          ELSE IF e.line = None
          THEN PollLoop(now + 1 + e.late, end_time, Tail(feed), output_lines,
                        Append(seen, Call("readline", FALSE, None, None)))
          ELSE LET line == Strip(Decode(e.line[1]))
               IN PollLoop(now + 1 + e.late, end_time, Tail(feed),
                           IF line # <<>> THEN Append(output_lines, line)
                           ELSE output_lines,
                           Append(seen, Call("readline", TRUE, None, Some(line))))

\* read_serial(port, duration, baudrate) in environment env: whether pyserial
\* is installed, how serial.Serial(...) ends, how long after the end time was
\* computed the clock is read again, and the feed of the loop
read_serial(duration, env) ==
    IF ~env.has_serial
    THEN [exc |-> NoExc, calls |-> <<>>, value |-> Some(NoPyserialText)]
    ELSE
    LET open == Call("serial.Serial", env.open = "ok", None, None)
    IN CASE env.open = "SerialException" ->
              [exc |-> NoExc, calls |-> <<open>>,
               value |-> Some(SerialErrorPrefix \o PortBusyText)]
         [] env.open = "ValueError" ->
              [exc |-> NoExc, calls |-> <<open>>,
               value |-> Some(ReadErrorPrefix \o BadBaudrateText)]
         [] OTHER ->
              LET end_time == env.now + duration
                  loop == PollLoop(env.now + env.late, end_time, env.feed, <<>>,
                                   <<open>>)
              IN IF loop.exc # NoExc
                 THEN [exc |-> NoExc, calls |-> loop.calls,
                       value |-> Some(SerialErrorPrefix \o loop.exc.text)]
                 ELSE [exc |-> NoExc, calls |-> loop.calls,
                       value |-> Some(IF loop.lines # <<>> THEN JoinLines(loop.lines)
                                      ELSE NoOutputText)]

\* what one pass of the loop may meet: nothing waiting; in_waiting raising
\* (the device was unplugged); a line of text; a line of blanks and an
\* invalid byte; readline raising; each with the sleep on time or late
FeedEntries ==
    { [waiting |-> w, line |-> l, late |-> d] :
        w \in {"none", "raises"}, l \in {None}, d \in {0} }
    \cup { [waiting |-> "some", line |-> l, late |-> d] :
              l \in { Some(<<"o","k","\r","\n">>), Some(<<" ",InvalidByte,"\n">>),
                      None },
              d \in {0, 1} }

RECURSIVE Feeds(_)
\* the feeds of exactly n passes
Feeds(n) ==
    IF n = 0 THEN {<<>>}
    ELSE {<<e>> \o f : e \in FeedEntries, f \in Feeds(n - 1)}

\* the environments of one read_serial call; a pass lasts a tick at least,
\* so no call of at most MaxDuration ticks makes more than MaxDuration passes
SerialEnvs ==
    [has_serial : {FALSE}, open : {"ok"}, now : {0}, late : {0}, feed : {<<>>}]
    \cup [has_serial : {TRUE}, open : {"SerialException", "ValueError"}, now : {0},
          late : {0}, feed : {<<>>}]
    \cup [has_serial : {TRUE}, open : {"ok"}, now : {0, 1}, late : {0, 1},
          feed : Feeds(MaxDuration)]

SerialRequests ==
    { [op |-> "read_serial", port |-> PortUSB0, duration |-> d, env |-> e] :
        d \in 0..MaxDuration, e \in SerialEnvs }

ReadSerial ==
    /\ Handling("read_serial")
    /\ \E r \in {read_serial(req.duration, req.env)} :
          /\ ret' = r.value
          /\ exc' = r.exc
          /\ calls' = r.calls
    /\ phase' = "done"
    /\ UNCHANGED <<fs, req, last, tasks>>

\* a read_serial call has arrived, in one of the environments
InitSerial ==
    /\ fs = [d \in {} |-> NoFiles]
    /\ phase = "pending"
    /\ req \in SerialRequests
    /\ ret = None
    /\ exc = NoExc
    /\ calls = <<>>
    /\ last = [d \in {} |-> [code |-> EmptyFile, returned |-> FALSE,
                             path |-> None]]
    /\ tasks = <<>>

NextSerial == ReadSerial

SpecSerial == InitSerial /\ [][NextSerial]_vars

(***************************************************************************)
(* The deploy handlers on the event loop of one server process.  main.py   *)
(* serves the agent's tools and POST /upload, api_server.py serves POST    *)
(* /api/upload; each process runs its coroutines on one event loop, which  *)
(* takes up another coroutine only where the running one awaits.  A deploy *)
(* is followed here stage by stage, each stage reading the sketch          *)
(* directory as it is when the stage runs.                                 *)
(***************************************************************************)
LoopOps == {"agent_deploy_code", "upload", "api_upload"}

\* the module whose process serves the operation
ProcessOf(op) == IF op = "api_upload" THEN "api_server" ELSE "main"

\* a handler with an await between its write and its compile
AwaitAfterWrite(op) == {"written"}

\* the stage boundaries at which the handler of op awaits: deploy_code of the
\* agent, upload_code_endpoint and upload_code call write_sketch,
\* compile_sketch and upload_sketch one after the other with no await
SuspensionPoints(op) == {}

\* the environment of a deploy no stage of which has run
IdleEnv ==
    [stop |-> "ok", probe |-> IdleProbe, crun |-> IdleRun, up |-> IdleUpload]

\* a coroutine of the loop: the call it handles, the stage it has passed
\* ("ready", "written", "compiled", "ended"), the environment its stages met, the
\* sketch path and the FQBN it holds, the trace of what it invoked, and
\* whether it is the one running
Task(r) ==
    [req |-> r, pc |-> "ready", env |-> IdleEnv, path |-> None, fqbn |-> r.fqbn,
     calls |-> <<>>, on |-> FALSE]

\* the calls the loop is given: deploys to the folder of the editor, by the
\* agent's tool and by the two upload endpoints
LoopRequests ==
    {Req("agent_deploy_code", c, ClientSketchName, PortACM0, DefaultFqbn, <<>>) :
        c \in Codes}
    \cup {Req("upload", c, EditorSketchName, PortACM0, DefaultFqbn, <<>>) : c \in Codes}
    \cup {Req("api_upload", c, ClientSketchName, PortACM0, DefaultFqbn, <<>>) :
             c \in Codes}

\* the environments the stages meet on the loop: one of each way a stage ends
LoopProbes ==
    {p \in LookupProbes : ProbeRaises(p) \/ (~p.has_serial /\ p.run = CliMissing)}

LoopCompileRuns ==
    { Exited(0, StdoutText, <<>>), Exited(1, <<>>, StderrCompile),
      Raised("PermissionError") }

LoopUploadEnvs ==
    {e \in UploadEnvs :
        \/ /\ e.st = Stat(0, 0, {"S_IWOTH"})
           /\ e.run \in { Exited(0, StdoutText, <<>>), Exited(1, <<>>, StderrSync),
                          Raised("TimeoutExpired") }
        \/ e.st = StatRaises /\ e.fix = Exited(1, <<>>, <<>>)}

\* the handler of the call r as a whole, under the environment env
Handler(r, fsys, env) ==
    CASE r.op = "agent_deploy_code" ->
            agent_deploy_code(fsys, r.code, r.port, r.name, r.fqbn, env)
      [] r.op = "api_upload" ->
            upload_code(fsys, r.code, r.port, r.fqbn, r.name, env)
      [] OTHER ->
            upload_code_endpoint(fsys, r.code, r.port, r.fqbn, env)

\* what discovery returns to POST /upload under the probe
Lookup(probe) == list_arduino_boards(probe.has_serial, probe.ports, probe.run)

\* whether the handler of r asks discovery before it compiles
AsksDiscovery(r) == r.op = "upload" /\ NeedsLookup(r.fqbn)

\* the trace entry of a stage: the endpoints' carry the FQBN
StageEntry(r, fn, ok, fqbn, out) ==
    IF r.op = "agent_deploy_code" THEN Call(fn, ok, None, out)
    ELSE StageCall(fn, ok, fqbn, out)

Without(seq, t) == [i \in 1..(Len(seq) - 1) |-> IF i < t THEN seq[i] ELSE seq[i + 1]]

Running(t) == t \in DOMAIN tasks /\ tasks[t].on

\* a request reaches the process: the loop holds a coroutine for it
Accept(r) ==
    /\ Len(tasks) < MaxTasks
    /\ \A i \in DOMAIN tasks : ProcessOf(tasks[i].req.op) = ProcessOf(r.op)
    /\ tasks' = Append(tasks, Task(r))
    /\ UNCHANGED <<fs, phase, req, ret, exc, calls, last>>

\* the loop, no coroutine running, takes up one it holds
Resume(t) ==
    /\ t \in DOMAIN tasks
    /\ \A i \in DOMAIN tasks : ~tasks[i].on
    /\ tasks' = [tasks EXCEPT ![t].on = TRUE]
    /\ req' = tasks[t].req
    /\ phase' = "pending"
    /\ ret' = None
    /\ exc' = NoExc
    /\ calls' = <<>>
    /\ UNCHANGED <<fs, last>>

\* the handler of the coroutine t, its last stage over, returns or raises
Return(t) ==
    /\ Running(t)
    /\ tasks[t].pc = "ended"
    /\ tasks' = Without(tasks, t)
    /\ \E d \in {Handler(tasks[t].req, fs, tasks[t].env)} :
          /\ ret' = d.value
          /\ exc' = d.exc
    /\ calls' = tasks[t].calls
    /\ req' = tasks[t].req
    /\ phase' = "done"
    /\ UNCHANGED <<fs, last>>

\* the handler of the coroutine t passes the stage boundary pc and goes on
\* ("ended": to its return or raise), or awaits there and gives the loop back
Proceed(t, pc, env, path, fqbn, trace) ==
    /\ tasks' = [tasks EXCEPT ![t] =
                    [req |-> @.req, pc |-> pc, env |-> env, path |-> path,
                     fqbn |-> fqbn, calls |-> trace,
                     on |-> pc \notin SuspensionPoints(@.req.op)]]
    /\ UNCHANGED <<phase, req, ret, exc, calls>>

WriteStage(t) ==
    /\ Running(t)
    /\ tasks[t].pc = "ready"
    /\ \E stop \in WriteOutcomes :
          \E w \in {write_sketch(fs, tasks[t].req.code, tasks[t].req.name, stop)} :
             \E env \in {[tasks[t].env EXCEPT !.stop = stop]},
                trace \in {<<Call("write_sketch", w.exc = NoExc, None, w.value)>>} :
                /\ fs' = w.fs
                /\ last' = Remember(last, tasks[t].req.code, tasks[t].req.name, w)
                /\ Proceed(t, IF w.exc # NoExc THEN "ended" ELSE "written", env,
                           w.value, tasks[t].fqbn, trace)

CompileStage(t) ==
    /\ Running(t)
    /\ tasks[t].pc = "written"
    /\ \E probe \in IF AsksDiscovery(tasks[t].req) THEN LoopProbes ELSE {IdleProbe},
          run \in LoopCompileRuns :
          \E r \in {tasks[t].req},
             env \in {[tasks[t].env EXCEPT !.probe = probe, !.crun = run]},
             found \in {IF AsksDiscovery(tasks[t].req) THEN Lookup(probe)
                        ELSE [exc |-> NoExc, value |-> Some(<<>>)]} :
             \E lcalls \in {IF AsksDiscovery(r)
                            THEN <<Call("list_arduino_boards", found.exc = NoExc,
                                        None, found.value),
                                   Call("arduino-cli board list",
                                        RunSucceeds(probe.run), None, Some(probe.run))>>
                            ELSE <<>>} :
                IF found.exc # NoExc
                THEN Proceed(t, "ended", env, tasks[t].path, r.fqbn,
                             tasks[t].calls \o lcalls)
                ELSE \E fqbn \in {IF AsksDiscovery(r)
                                  THEN ResolveFqbn(r.fqbn, found.value[1], r.port)
                                  ELSE r.fqbn} :
                        \E c \in {compile_sketch(fs, tasks[t].path[1], fqbn, run)} :
                           \E trace \in {tasks[t].calls \o lcalls
                                         \o <<StageEntry(r, "compile_sketch",
                                                         c.exc = NoExc, fqbn, c.value)>>
                                         \o c.calls} :
                              Proceed(t,
                                      IF c.exc # NoExc \/ CompileFailed(c.value[1])
                                      THEN "ended" ELSE "compiled",
                                      env, tasks[t].path, fqbn, trace)
    /\ UNCHANGED <<fs, last>>

UploadStage(t) ==
    /\ Running(t)
    /\ tasks[t].pc = "compiled"
    /\ \E up \in LoopUploadEnvs :
          \E r \in {tasks[t].req}, env \in {[tasks[t].env EXCEPT !.up = up]} :
             \E u \in {upload_sketch(fs, tasks[t].path[1], r.port, tasks[t].fqbn, up)} :
                Proceed(t, "ended", env, tasks[t].path, tasks[t].fqbn,
                        tasks[t].calls
                        \o <<StageEntry(r, "upload_sketch", u.exc = NoExc,
                                        tasks[t].fqbn, u.value)>>
                        \o u.calls)
    /\ UNCHANGED <<fs, last>>

TaskIds == 1..MaxTasks

NextLoop ==
    \/ \E r \in LoopRequests : Accept(r)
    \/ \E t \in TaskIds : Resume(t)
    \/ \E t \in TaskIds : WriteStage(t)
    \/ \E t \in TaskIds : CompileStage(t)
    \/ \E t \in TaskIds : UploadStage(t)
    \/ \E t \in TaskIds : Return(t)

SpecLoop == Init /\ [][NextLoop]_vars

(***************************************************************************)
(* Properties.                                                             *)
(***************************************************************************)
DeployOps == {"deploy_code", "agent_deploy_code"}

UploadOps == {"upload_sketch"} \cup DeployOps

Done(ops) == phase = "done" /\ req.op \in ops

\* the entries of the trace for the functions or commands fns, in order
Entries(fns) == SelectSeq(calls, LAMBDA e : e.fn \in fns)

\* the stages a deploy ran, in order
Stages == Entries({"write_sketch", "compile_sketch", "upload_sketch"})

StageOrder == <<"write_sketch", "compile_sketch", "upload_sketch">>

\* a stage entry whose function returned a result reporting success
StageSucceeded(e) ==
    /\ e.ok
    /\ IF e.fn = "write_sketch" THEN TRUE ELSE e.out[1].success

\* the field of a returned dict, or "absent"
Field2(r, k) == IF k \in DOMAIN r THEN r[k] ELSE "absent"

\* what upload_sketch returned in the call just handled, if it was called
\* and returned
UploadReturn ==
    IF req.op = "upload_sketch" THEN ret
    ELSE LET es == Entries({"upload_sketch"})
         IN IF es = <<>> THEN None ELSE es[1].out

OptionChmod ==
    <<"s","u","d","o"," ","c","h","m","o","d"," ","a","+","r","w"," ">>

OptionGroup ==
    <<"s","u","d","o"," ","u","s","e","r","m","o","d"," ","-","a"," ","-","G",
      " ","u","u","c","p"," ","$","U","S","E","R">>

OptionUdev ==
    <<"s","u","d","o"," ","c","p"," ","9","9","-","u","s","b","-","s","e","r",
      "i","a","l",".","r","u","l","e","s"," ","/","e","t","c","/","u","d","e",
      "v","/","r","u","l","e","s",".","d","/">>

\* C1: a deploy runs write, compile, upload in this order, each at most once,
\* and stops at the first stage that fails: after a write that raised the
\* result names the stage "write" and nothing else ran; after a compile that
\* returned success = false the result is success = false, stage "compile",
\* error = the compile result's errors, and upload_sketch was not called;
\* the commands of a stage run only within that stage.
C1_StagesInOrderAndHalt ==
    Done(DeployOps) =>
        LET n == Len(Stages)
        IN /\ n \in 1..3
           /\ \A i \in 1..n : Stages[i].fn = StageOrder[i]
           /\ Len(Entries({"arduino-cli compile"})) = (IF n >= 2 THEN 1 ELSE 0)
           /\ Len(Entries({"check_port_accessible"})) = (IF n = 3 THEN 1 ELSE 0)
           /\ Len(Entries({"arduino-cli upload"})) <= (IF n = 3 THEN 1 ELSE 0)
           /\ Len(Entries({"sudo chmod"})) <= (IF n = 3 THEN 1 ELSE 0)
           /\ \A i \in 1..n : ~StageSucceeded(Stages[i]) => i = n
           /\ ~Stages[1].ok =>
                 /\ exc = NoExc
                 /\ ret # None
                 /\ ret[1].success = FALSE
                 /\ ret[1].stage = "write"
           /\ (n >= 2 /\ Stages[2].ok /\ ~Stages[2].out[1].success) =>
                 /\ exc = NoExc
                 /\ ret # None
                 /\ ret[1].success = FALSE
                 /\ ret[1].stage = "compile"
                 /\ ret[1].error = Stages[2].out[1].errors
           /\ (n = 3 /\ Stages[3].ok /\ ~Stages[3].out[1].success) =>
                 /\ exc = NoExc
                 /\ ret # None
                 /\ ret[1].success = FALSE
                 /\ ret[1].stage = "upload"
                 /\ ret[1].error = Stages[3].out[1].errors
           /\ (~Stages[n].ok /\ n >= 2) => (exc # NoExc /\ ret = None)

\* a deploy stopped at a failed compile
C1_Witness ==
    /\ Done(DeployOps)
    /\ ret # None
    /\ Field2(ret[1], "stage") = "compile"
    /\ Len(Stages) = 2
    /\ Entries({"check_port_accessible", "arduino-cli upload"}) = <<>>

\* C2: when upload_sketch finds the port inaccessible and the sudo chmod
\* fails, it returns success = false with an errors text that holds the three
\* fix options (chmod of the port, group membership, udev rule) and the port,
\* and arduino-cli upload is not run.
C2_PreflightAbortExplains ==
    ( /\ Done(UploadOps)
      /\ \E i \in DOMAIN calls : calls[i].fn = "check_port_accessible" /\ ~calls[i].ok
      /\ \E i \in DOMAIN calls : calls[i].fn = "sudo chmod" /\ ~calls[i].ok )
    => /\ UploadReturn # None
       /\ UploadReturn[1].success = FALSE
       /\ ~IsNone(UploadReturn[1].errors)
       /\ LET text == UploadReturn[1].errors[1]
          IN /\ Contains(OptionChmod \o req.port, text)
             /\ Contains(OptionGroup, text)
             /\ Contains(OptionUdev, text)
             /\ Contains(req.port, text)
       /\ Entries({"arduino-cli upload"}) = <<>>

\* an upload_sketch call that was aborted before arduino-cli
C2_Witness ==
    /\ Done({"upload_sketch"})
    /\ Len(calls) = 2
    /\ calls[1].fn = "check_port_accessible" /\ ~calls[1].ok
    /\ calls[2].fn = "sudo chmod" /\ ~calls[2].ok
    /\ ret # None

\* text holds "permission denied" in some letter case
DeniedInAnyCase(text) ==
    \E i \in 1..Len(text) :
        /\ i + Len(PermissionDeniedPattern) - 1 <= Len(text)
        /\ \A j \in 1..Len(PermissionDeniedPattern) :
              LowerChar(text[i + j - 1]) = <<PermissionDeniedPattern[j]>>

\* the arduino-cli upload run of the call just handled that exited non-zero
\* with a denied permission in its error text, if there is one
DeniedUploads ==
    SelectSeq(Entries({"arduino-cli upload"}),
              LAMBDA e : /\ e.out[1].kind = "exit"
                         /\ e.out[1].returncode # 0
                         /\ DeniedInAnyCase(e.out[1].stderr))

\* C3: when arduino-cli upload exits non-zero with an error text that holds
\* "permission denied" in any letter case, upload_sketch returns
\* success = false with an errors text that holds the hint for the port and,
\* after it, the whole error text of the tool.
C3_HintAheadOfToolError ==
    (Done(UploadOps) /\ DeniedUploads # <<>>) =>
        /\ UploadReturn # None
        /\ UploadReturn[1].success = FALSE
        /\ ~IsNone(UploadReturn[1].errors)
        /\ LET text == UploadReturn[1].errors[1]
               hint == _permission_denied_hint(req.port)
               tool == DeniedUploads[1].out[1].stderr
           IN /\ Contains(OptionChmod \o req.port, text)
              /\ Contains(OptionGroup, text)
              /\ Contains(OptionUdev, text)
              /\ \E i \in 1..Len(text) :
                    /\ OccursAt(hint, text, i)
                    /\ \E j \in (i + Len(hint))..Len(text) :
                          OccursAt(tool, text, j)

\* the pre-flight check passed and arduino-cli then reported, in capitals,
\* a denied permission
C3_Witness ==
    /\ Done({"upload_sketch"})
    /\ Len(calls) = 2
    /\ calls[1].fn = "check_port_accessible" /\ calls[1].ok
    /\ DeniedUploads # <<>>
    /\ DeniedUploads[1].out[1].stderr = StderrDeniedUpper

\* the results compile_sketch and upload_sketch returned in the call just
\* handled
ToolResults ==
    IF Done({"compile_sketch", "upload_sketch"})
    THEN (IF ret = None THEN {} ELSE {ret[1]})
    ELSE IF Done(DeployOps)
    THEN {e.out[1] : e \in {x \in Range(Entries({"compile_sketch", "upload_sketch"})) :
                               x.out # None}}
    ELSE {}

\* C4: in every result compile_sketch or upload_sketch returns, errors is not
\* None exactly when success is false.
C4_ErrorsIffFailure ==
    \A r \in ToolResults : (~IsNone(r.errors)) <=> (r.success = FALSE)

\* a compile that succeeded with warnings on stderr
C4_Witness ==
    /\ Done({"compile_sketch"})
    /\ ret # None
    /\ ret[1].success
    /\ calls[1].out[1].stderr = StderrWarning

\* C10: when write, compile and upload all succeed, the deploy returns
\* success = true with the sketch_path the write returned and no stage or
\* error field; and it returns success = true only when all three stages ran
\* and each succeeded.
C10_SuccessIffAllStages ==
    Done(DeployOps) =>
        LET allRan == /\ Len(Stages) = 3
                      /\ \A i \in 1..3 : StageSucceeded(Stages[i])
        IN /\ allRan =>
                 /\ exc = NoExc
                 /\ ret # None
                 /\ ret[1].success = TRUE
                 /\ ret[1].sketch_path = Stages[1].out[1]
                 /\ "stage" \notin DOMAIN ret[1]
                 /\ "error" \notin DOMAIN ret[1]
           /\ (ret # None /\ ret[1].success) =>
                 /\ allRan
                 /\ \E i \in DOMAIN calls :
                       calls[i].fn = "arduino-cli compile" /\ calls[i].ok
                 /\ \E i \in DOMAIN calls :
                       calls[i].fn = "arduino-cli upload" /\ calls[i].ok

\* a deploy of the agent tool that succeeded after the port was fixed
C10_Witness ==
    /\ Done({"agent_deploy_code"})
    /\ ret # None
    /\ ret[1].success
    /\ \E i \in DOMAIN calls : calls[i].fn = "sudo chmod" /\ calls[i].ok

\* the records the two methods found, heuristic matches first, for the
\* discovery call just handled
FoundBoards ==
    (IF req.probe.has_serial THEN PySerialBoards(req.probe.ports) ELSE <<>>)
    \o ArduinoCliBoards(req.probe.run).boards

\* a record built from the operating system's enumeration
HeuristicSourced(board) == "hwid" \in DOMAIN board

RECURSIVE FirstOccurrencesFrom(_, _)
\* the records of boards from index i on whose port no earlier record has
FirstOccurrencesFrom(boards, i) ==
    IF i > Len(boards) THEN <<>>
    ELSE (IF \A j \in 1..(i - 1) : boards[j].port # boards[i].port
          THEN <<boards[i]>> ELSE <<>>)
         \o FirstOccurrencesFrom(boards, i + 1)

\* C5: the list list_arduino_boards returns holds no two records with the
\* same port.
C5_NoPortTwice ==
    (Done({"list_arduino_boards"}) /\ ret # None) =>
        \A i, j \in DOMAIN ret[1] :
            ret[1][i].port = ret[1][j].port => i = j

\* both methods found boards, more than the call returned
C5_Witness ==
    /\ Done({"list_arduino_boards"})
    /\ ret # None
    /\ Len(ret[1]) >= 2
    /\ Len(FoundBoards) > Len(ret[1])

\* C6: list_arduino_boards returns the heuristic matches in the order of the
\* enumeration followed by the records of arduino-cli in the order reported,
\* keeping of each port the first record only; for a port both methods
\* found, the record kept is the heuristic one.
C6_FirstOccurrenceOrder ==
    (Done({"list_arduino_boards"}) /\ ret # None) =>
        /\ ret[1] = FirstOccurrencesFrom(FoundBoards, 1)
        /\ \A i \in DOMAIN ret[1] :
              (\E j \in DOMAIN FoundBoards :
                  /\ HeuristicSourced(FoundBoards[j])
                  /\ FoundBoards[j].port = ret[1][i].port)
              => HeuristicSourced(ret[1][i])

\* a port found by both methods, kept once, ahead of a record of arduino-cli
C6_Witness ==
    /\ Done({"list_arduino_boards"})
    /\ ret # None
    /\ Len(ret[1]) = 2
    /\ HeuristicSourced(ret[1][1])
    /\ ~HeuristicSourced(ret[1][2])
    /\ \E j \in DOMAIN FoundBoards :
          ~HeuristicSourced(FoundBoards[j]) /\ FoundBoards[j].port = ret[1][1].port

\* C7: list_arduino_boards returns a list, and raises nothing, however the
\* arduino-cli invocation ends.
C7_DiscoveryNeverRaises ==
    Done({"list_arduino_boards"}) => (exc = NoExc /\ ret # None)

\* a sanitized name as promised: not empty, lower-case letters, digits and
\* underscores only
IsIdentifier(safe_name) ==
    /\ safe_name # <<>>
    /\ \A i \in DOMAIN safe_name :
          \/ safe_name[i] = "_"
          \/ IsAlnum(safe_name[i]) /\ ~IsUpper(safe_name[i])

\* C8: the sanitized name of every write_sketch call is not empty and made
\* of lower-case alphanumerics and underscores only, and a name with no
\* alphanumeric or underscore character is sanitized to "sketch".
C8_SanitizedNameIsIdentifier ==
    /\ \A d \in DOMAIN last : IsIdentifier(d)
    /\ (Done({"write_sketch"}) /\ exc = NoExc) =>
          /\ \E d \in DOMAIN last : ret = Some(FolderPath(d))
          /\ (\A i \in DOMAIN req.name : ~IsAlnum(req.name[i]) /\ req.name[i] # "_")
                => ret = Some(FolderPath(DefaultName))

\* after the calls so far, each sanitized name whose latest call returned has
\* its folder, holding the one file named after it, with the code of that call
OneFilePerSketch ==
    /\ DOMAIN fs \subseteq DOMAIN last
    /\ \A d \in DOMAIN last :
          /\ d \in DOMAIN fs => DOMAIN fs[d] \subseteq {d \o InoSuffix}
          /\ last[d].returned =>
                /\ d \in DOMAIN fs
                /\ DOMAIN fs[d] = {d \o InoSuffix}
                /\ fs[d][d \o InoSuffix] = last[d].code
                /\ last[d].path = Some(FolderPath(d))

\* a call that repeats the code of the latest call for its sanitized name,
\* which returned, and returns too: nothing stored changes and the path
\* returned is the same
RepeatChangesNothing ==
    LET d == SafeName(req.name)
    IN ( /\ Handling("write_sketch")
         /\ d \in DOMAIN last
         /\ last[d].returned
         /\ last[d].code = req.code
         /\ exc' = NoExc )
       => (fs' = fs /\ ret' = last[d].path)

\* C9: write_sketch overwrites idempotently: after any calls, each sanitized
\* name written has one folder with one file, named after the folder, holding
\* the code of the latest write (a call that returned; a call that raised
\* leaves at most that one file); a call repeating the code for the same
\* sanitized name leaves what is stored unchanged and returns the same path.
C9_IdempotentOverwrite == []OneFilePerSketch /\ [][RepeatChangesNothing]_vars

\* a call that returned found the file holding the very code it wrote, next
\* to another sketch folder
C9_Witness ==
    /\ Done({"write_sketch"})
    /\ exc = NoExc
    /\ calls # <<>>
    /\ calls[1].src = Some(req.code)
    /\ Cardinality(DOMAIN fs) >= 2

RestUploadOps == {"api_upload", "upload"}

CompileStageWords ==
    <<"C","o","m","p","i","l","a","t","i","o","n"," ","f","a","i","l","e","d">>

UploadStageWords ==
    <<"U","p","l","o","a","d"," ","f","a","i","l","e","d">>

\* the response reports that `stage` (named in words by `words`) failed
\* with the error text `errors`: POST /api/upload answers with status 400
\* and a detail of the words and the text, POST /upload with a body of
\* success = false, the stage and the text
ReportsFailure(stage, words, errors) ==
    IF req.op = "api_upload"
    THEN /\ exc # NoExc
         /\ exc.type = "HTTPException"
         /\ exc.status_code = 400
         /\ OccursAt(words, exc.text, 1)
         /\ ~IsNone(errors)
         /\ \E i \in (Len(words) + 1)..(Len(exc.text) + 1) :
               OccursAt(errors[1], exc.text, i)
         /\ ret = None
    ELSE /\ exc = NoExc
         /\ ret # None
         /\ ret[1].success = FALSE
         /\ Field2(ret[1], "stage") = stage
         /\ "error" \in DOMAIN ret[1]
         /\ ret[1].error = errors
         /\ ~IsNone(errors)

\* C11: POST /api/upload and POST /upload answer success only when write,
\* compile and upload ran in this order and all succeeded; when the compile
\* returns success = false the answer is an error naming the compile stage
\* with the compiler's error text, and upload_sketch is not called; when the
\* upload returns success = false the answer is an error naming the upload
\* stage with the uploader's error text.
C11_RestUploadStages ==
    Done(RestUploadOps) =>
        LET n == Len(Stages)
        IN /\ n \in 1..3
           /\ \A i \in 1..n : Stages[i].fn = StageOrder[i]
           /\ (ret # None /\ ret[1].success) =>
                 /\ exc = NoExc
                 /\ n = 3
                 /\ \A i \in 1..3 : StageSucceeded(Stages[i])
                 /\ Len(Entries({"arduino-cli compile"})) = 1
                 /\ Len(Entries({"arduino-cli upload"})) = 1
           /\ (n >= 2 /\ Stages[2].ok /\ ~Stages[2].out[1].success) =>
                 /\ ReportsFailure("compile", CompileStageWords,
                                   Stages[2].out[1].errors)
                 /\ n = 2
                 /\ Entries({"check_port_accessible", "sudo chmod",
                             "arduino-cli upload"}) = <<>>
           /\ (n = 3 /\ Stages[3].ok /\ ~Stages[3].out[1].success) =>
                 ReportsFailure("upload", UploadStageWords,
                                Stages[3].out[1].errors)

\* POST /api/upload answered 400 after a compile error
C11_Witness ==
    /\ Done({"api_upload"})
    /\ exc # NoExc
    /\ exc.status_code = 400
    /\ Len(Stages) = 2
    /\ Stages[2].out # None
    /\ Stages[2].out[1].errors = Some(StderrCompile)

\* C12: read_serial with duration 0 on a port that opens returns exactly
\* "No serial output received": the loop body is not entered (the port is
\* not polled, whatever it holds) and no line is collected.
C12_ZeroDurationSentinel ==
    ( /\ Done({"read_serial"})
      /\ req.duration = 0
      /\ req.env.has_serial
      /\ req.env.open = "ok" )
    => /\ exc = NoExc
       /\ ret = Some(NoOutputText)
       /\ Entries({"in_waiting", "readline"}) = <<>>

\* a call of duration 0 returned, the port opened, a line waiting, and the
\* clock read twice within one tick
C12_Witness ==
    /\ Done({"read_serial"})
    /\ req.duration = 0
    /\ req.env.has_serial
    /\ req.env.open = "ok"
    /\ req.env.late = 0
    /\ req.env.feed # <<>>
    /\ req.env.feed[1].waiting = "some"
    /\ req.env.feed[1].line # None
    /\ ret # None

TokenOps == {"api_token", "token"}

NotConfiguredWords ==
    <<"S","T","R","E","A","M","_","A","P","I","_","S","E","C","R","E","T"," ",
      "n","o","t"," ","c","o","n","f","i","g","u","r","e","d">>

\* C13: POST /api/token and POST /token, when STREAM_API_SECRET is unset or
\* empty, answer with the configuration error (status 500, "STREAM_API_SECRET
\* not configured") and with no token, whatever the user_id.
C13_NoSecretNoToken ==
    ( /\ Done(TokenOps)
      /\ (IsNone(req.secret_env) \/ req.secret_env = Some(<<>>)) )
    => /\ ret = None
       /\ exc.type = "HTTPException"
       /\ exc.status_code = 500
       /\ OccursAt(NotConfiguredWords, exc.text, 1)

\* POST /token was answered for a user while the secret was set to nothing
C13_Witness ==
    /\ Done({"token"})
    /\ req.secret_env = Some(<<>>)
    /\ req.user_id # <<>>
    /\ exc # NoExc

\* C14: every record list_arduino_boards returns carries an fqbn, whichever
\* method built it.
C14_EveryRecordHasFqbn ==
    (Done({"list_arduino_boards"}) /\ ret # None) =>
        \A i \in DOMAIN ret[1] :
            /\ "fqbn" \in DOMAIN ret[1][i]
            /\ ret[1][i].fqbn # ""

\* the entries of "detected_ports" arduino-cli printed for the discovery call
\* just handled
PrintedEntries ==
    LET out == req.probe.run.stdout
    IN IF req.probe.run.kind = "exit" /\ req.probe.run.returncode = 0
          /\ out.t = "obj" /\ "detected_ports" \in DOMAIN out.f
       THEN out.f.detected_ports.items
       ELSE <<>>

\* the records Method 2 built for the discovery call just handled
ToolBoards == ArduinoCliBoards(req.probe.run).boards

EntryAddress(e) == Get(Get(e, "port", JObj(<<>>)), "address", JStr(<<>>)).s

EntryProtocol(e) == Get(Get(e, "port", JObj(<<>>)), "protocol", JStr(<<>>)).s

EntryMatches(e) == Get(e, "matching_boards", JArr(<<>>)).items

\* the record b is what the policy makes of the entry e
BuiltFrom(b, e) ==
    /\ b.port = EntryAddress(e)
    /\ b.protocol = EntryProtocol(e)
    /\ IF EntryMatches(e) = <<>>
       THEN b.board_name = "Arduino (clone/unrecognised)" /\ b.fqbn = DefaultFqbn
       ELSE LET first == EntryMatches(e)[1]
            IN /\ "name" \in DOMAIN first.f => b.board_name = first.f.name.s
               /\ "fqbn" \in DOMAIN first.f => b.fqbn = first.f.fqbn.s

\* every record of Method 2 is built from an entry printed, and every entry
\* with an address and a serial protocol has its record
MatchingPolicy ==
    /\ \A i \in DOMAIN ToolBoards :
          \E j \in DOMAIN PrintedEntries : BuiltFrom(ToolBoards[i], PrintedEntries[j])
    /\ \A j \in DOMAIN PrintedEntries :
          (EntryAddress(PrintedEntries[j]) # <<>>
           /\ Contains(SerialWord, EntryProtocol(PrintedEntries[j])))
          => \E i \in DOMAIN ToolBoards : BuiltFrom(ToolBoards[i], PrintedEntries[j])

\* C15: Method 2 adds a detected port only if its protocol is of the serial
\* family and its address is not empty; a port added takes the name and the
\* FQBN of its first match, and with no match it is added as an unrecognised
\* clone with the FQBN "arduino:avr:uno".
C15_ToolMatchingPolicy ==
    (Done({"list_arduino_boards"}) /\ exc = NoExc) =>
        /\ \A i \in DOMAIN ToolBoards :
              /\ ToolBoards[i].port # <<>>
              /\ Contains(SerialWord, ToolBoards[i].protocol)
        /\ MatchingPolicy

\* what one upload_sketch call did, in order: the pre-flight check, the sudo
\* chmod, the arduino-cli upload
UploadSteps == Entries({"check_port_accessible", "sudo chmod", "arduino-cli upload"})

\* upload_sketch was called in the call just handled
UploadSketchCalled ==
    \/ Done({"upload_sketch"})
    \/ Done(DeployOps) /\ Len(Stages) = 3

\* C16: in one upload_sketch call the pre-flight check comes first, once; the
\* sudo chmod is run at most once, and only after a failed pre-flight check;
\* arduino-cli upload is run at most once, last, and exactly when the check
\* passed or the chmod succeeded; nothing is run again after a failure.
C16_SingleFixNoRetry ==
    UploadSketchCalled =>
        LET n      == Len(UploadSteps)
            fixes  == Entries({"sudo chmod"})
            runs   == Entries({"arduino-cli upload"})
            passed == UploadSteps[1].ok
            fixed  == fixes # <<>> /\ RunSucceeds(fixes[1].out[1])
        IN /\ n \in 1..3
           /\ UploadSteps[1].fn = "check_port_accessible"
           /\ Len(Entries({"check_port_accessible"})) = 1
           /\ Len(fixes) <= 1
           /\ Len(runs) <= 1
           /\ fixes # <<>> => (~passed /\ UploadSteps[2].fn = "sudo chmod")
           /\ ~passed => fixes # <<>>
           /\ runs # <<>> <=> (passed \/ fixed)
           /\ runs # <<>> => UploadSteps[n].fn = "arduino-cli upload"

\* the check failed, the chmod succeeded, and arduino-cli upload timed out:
\* three steps and no more
C16_Witness ==
    /\ Done({"upload_sketch"})
    /\ Len(UploadSteps) = 3
    /\ ~UploadSteps[1].ok
    /\ UploadSteps[2].ok
    /\ UploadSteps[3].out[1].kind = "TimeoutExpired"
    /\ ret # None

\* the FQBN the stage fn of the endpoint was called with
StageFqbn(fn) == Entries({fn})[1].fqbn

\* the records arduino-cli gave, with a matching board, for the port of the
\* request, when POST /upload asked
ToolMatchesForPort ==
    LET asked == Entries({"arduino-cli board list"})
    IN IF asked = <<>> THEN <<>>
       ELSE SelectSeq(ArduinoCliBoards(asked[1].out[1]).boards,
                      LAMBDA b : /\ b.port = req.port
                                 /\ b.board_name # "Arduino (clone/unrecognised)"
                                 /\ b.fqbn # "")

\* the records discovery returned for the port of the request that carry an
\* fqbn
FoundWithFqbn ==
    LET asked == Entries({"list_arduino_boards"})
    IN IF asked = <<>> THEN <<>>
       ELSE SelectSeq(asked[1].out[1],
                      LAMBDA b : /\ b.port = req.port
                                 /\ "fqbn" \in DOMAIN b
                                 /\ b.fqbn # "")

\* C17: POST /upload with the default fqbn compiles and uploads with the FQBN
\* F of the board arduino-cli matches for the port of the request, also when
\* the heuristic matches that port too; with no discovered record for the
\* port that has an fqbn it uses "arduino:avr:uno"; compile and upload use
\* the same FQBN.
C17_FqbnResolution ==
    (Done({"upload"}) /\ Entries({"compile_sketch"}) # <<>>) =>
        /\ (req.fqbn = DefaultFqbn /\ ToolMatchesForPort # <<>>) =>
              StageFqbn("compile_sketch") = ToolMatchesForPort[1].fqbn
        /\ (req.fqbn = DefaultFqbn /\ FoundWithFqbn = <<>>) =>
              StageFqbn("compile_sketch") = DefaultFqbn
        /\ Entries({"upload_sketch"}) # <<>> =>
              StageFqbn("upload_sketch") = StageFqbn("compile_sketch")

\* the coroutines that have written their sketch and not yet returned
BetweenStages == {t \in DOMAIN tasks : tasks[t].pc \in {"written", "compiled"}}

\* the source texts arduino-cli found in the runs of the trace
SourcesFound(trace) ==
    {trace[i].src : i \in {j \in DOMAIN trace :
                             trace[j].fn \in {"arduino-cli compile",
                                              "arduino-cli upload"}}}

\* C18: of the deploys one server process handles at a time, each compiles
\* and uploads the text it wrote itself: from its write stage to the end of
\* its upload stage a deploy is the coroutine that runs, the sketch file
\* holds the text it wrote, and every arduino-cli run of it, while it runs
\* and when it has returned, found that text.
C18_DeploysCompileOwnText ==
    /\ \A t \in BetweenStages :
          /\ tasks[t].on
          /\ SketchSource(fs, tasks[t].path[1]) = Some(tasks[t].req.code)
    /\ \A t \in DOMAIN tasks :
          SourcesFound(tasks[t].calls) \subseteq {Some(tasks[t].req.code)}
    /\ Done(LoopOps) => SourcesFound(calls) \subseteq {Some(req.code)}

\* a deploy has written and compiled its text and is about to upload it
\* while the loop holds another deploy, by another handler, of a different
\* text to the same folder
C18_Witness ==
    \E t \in DOMAIN tasks, u \in DOMAIN tasks :
       /\ tasks[t].pc = "compiled"
       /\ SourcesFound(tasks[t].calls) = {Some(tasks[t].req.code)}
       /\ tasks[u].pc = "ready"
       /\ tasks[u].req.op # tasks[t].req.op
       /\ tasks[u].req.code # tasks[t].req.code
       /\ SafeName(tasks[u].req.name) = SafeName(tasks[t].req.name)

====
